---- MODULE Spec2Model ----
(***************************************************************************)
(* Model of the roaming central of example/bt_roaming/central.py:          *)
(* NetworkCoordinator (scan task, analyzer task, event handler, bonding    *)
(* database task), the AccessPoint event callbacks, and the radio stack of *)
(* every access point as far as the host observes it (connection handles,  *)
(* the stream of stack events, advertisement and analyzer reports).        *)
(***************************************************************************)
EXTENDS Integers, Sequences, FiniteSets, TLC

(***************************************************************************)
(* Bounds of the model.                                                    *)
(***************************************************************************)
\* Largest number of access points (connectors) a run is started with.
NumAP == 3
\* Number of peripheral devices that exist.
NumPeer == 2
\* SL_BT_CONFIG_MAX_CONNECTIONS (central.py:52 sets 4), scaled down so that a
\* full access point is reached with NumPeer peers.
SL_BT_CONFIG_MAX_CONNECTIONS == 2
\* Largest number of events waiting in _event_queue.
MaxQueue == 2
\* Largest number of queued connection analysis requests.
MaxAnalyzerQueue == 1
\* Largest number of valid reports of one analyzer session.
MaxSamples == 2
\* Largest number of stack events waiting for one access point's thread.
MaxApq == 2
\* Largest number of bonding data events of a run.
MaxMutations == 2
\* Largest number of analyzer values of one access point in one analysis.
MaxHeard == 3

APs == 1..NumAP
Peers == 1..NumPeer
\* Connection handles of the stack of an access point.
Handles == 1..(SL_BT_CONFIG_MAX_CONNECTIONS + 1)

\* RSSI values the radio reports, in dBm.
RssiValues == {-60, -50}
\* RSSI values of advertisement reports where scanning is looked at closely.
ScanRssiValues == {-60, -55, -50}
\* Types of bonding material (evt.type) and their values (evt.data, bytes).
BondingTypes == {1, 12}
Blobs == {<<0, 171>>, <<255>>}
\* Values given to the -r/--rssi option; -127 when the option is absent.
RssiThresholds == {-127, -52}
\* RSSI values of analyzer reports that are averaged.
AnalyzerRssiValues == {-60, -53, -50}

\* Averaged RSSI values are floats with a power of two as denominator: the
\* model keeps analyzer results in units of 1/Scale dBm.
RECURSIVE Pow2(_)
Pow2(n) == IF n = 0 THEN 1 ELSE 2 * Pow2(n - 1)
Scale == Pow2(MaxSamples + MaxQueue)

\* None, where the other values are numbers.
None == 0

VARIABLES
    limits,           \* the part of the bounds a run is started with, and
                      \* whether the run records cycle
    ap_dict,          \* ids of the access points of NetworkCoordinator.ap_dict
    in_range,         \* the peers that are switched on and in radio range
    rssi_threshold,   \* NetworkCoordinator.rssi_threshold
    connections,      \* AccessPoint.connections of every access point
    link,             \* stack side: state of every connection handle
    apq,              \* stack events waiting for the access point's thread
    ap_alive,         \* the access point's thread (GenericApp.run) is running
    scanning,         \* stack side: the scanner of the access point is on
    analyzer,         \* AccessPoint.analyzer
    an_session,       \* stack side: running analyzer session and its reports
    event_queue,      \* NetworkCoordinator._event_queue
    analyzer_queue,   \* NetworkCoordinator._analyzer_queue
    ap_lock,          \* holder of NetworkCoordinator._ap_lock
    start_scan,       \* NetworkCoordinator._start_scan
    scan_result,      \* NetworkCoordinator._scan_result (insertion ordered)
    analyzer_result,  \* NetworkCoordinator._analyzer_result (insertion ordered)
    scan,             \* scan_task: position and locals
    an,               \* analyzer_task: position and locals
    bonding_db,       \* NetworkCoordinator._bonding_db
    bonding_db_dirty, \* NetworkCoordinator._bonding_db_dirty
    flush,            \* bonding_db_task: position and locals
    bonding_file,     \* content of the file BONDING_DB_PATH
    cmds,             \* radio commands issued by the last step
    last_report,      \* per device and access point: the RSSI of the latest
                      \* advertisement report handled in this scan cycle
    observed,         \* per peer and type: the bonding data the peer's link
                      \* delivered last to bt_evt_external_bondingdb_data
    debounce,         \* counts of bonding mutations, debounce windows and
                      \* save_bonding_db calls, and whether the database was
                      \* marked dirty during the current sleep
    cycle,            \* the current discovery cycle: the sightings it found
                      \* queued when it reset _scan_result, the entries of
                      \* _scan_result that come from them, and whether a
                      \* connection loss was handled since it began
    main,             \* the main thread: "boot" inside start(), "run"
                      \* after it, or "dead" after an exception that
                      \* nothing catches
    heard,            \* per access point: the analyzer values given to
                      \* update_analyzer_result since the result was empty
    ready,            \* AccessPoint.ready of every access point
    second_cycle,     \* _scan_result of another discovery cycle, to compare
                      \* the choices of two cycles
    window,           \* the current analysis: the analyzer values it found
                      \* queued when it reset _analyzer_result, and the
                      \* access points whose entry holds one of them
    newest            \* access point and handle of the entry the latest
                      \* connect() call stored

vars == <<limits, newest, ready, second_cycle, heard, window, cycle, main, observed, debounce, last_report, ap_dict, in_range, rssi_threshold, connections, link, apq, ap_alive,
          scanning, analyzer, an_session, event_queue, analyzer_queue, ap_lock,
          start_scan, scan_result, analyzer_result, scan, an, bonding_db,
          bonding_db_dirty, flush, bonding_file, cmds>>

(***************************************************************************)
(* Insertion ordered dictionaries: sequences of <<key, value>> pairs.      *)
(***************************************************************************)
Keys(d) == {d[i][1] : i \in 1..Len(d)}

Index(d, k) == CHOOSE i \in 1..Len(d) : d[i][1] = k

Get(d, k) == d[Index(d, k)][2]

Put(d, k, v) ==
    IF k \in Keys(d)
    THEN [d EXCEPT ![Index(d, k)] = <<k, v>>]
    ELSE Append(d, <<k, v>>)

\* {k: v for k, v in d.items() if keep(k)}
RECURSIVE Filter(_, _)
Filter(d, keep) ==
    IF d = <<>> THEN <<>>
    ELSE IF Head(d)[1] \in keep
         THEN <<Head(d)>> \o Filter(Tail(d), keep)
         ELSE Filter(Tail(d), keep)

\* max(d, key=d.get): the first key, in iteration order, with the largest value
MaxKey(d) ==
    LET best == CHOOSE i \in 1..Len(d) :
                   /\ \A j \in 1..Len(d) : d[j][2] <= d[i][2]
                   /\ \A j \in 1..(i - 1) : d[j][2] < d[i][2]
    IN d[best][1]

(***************************************************************************)
(* The connections dictionary of one access point: a function from the     *)
(* handles in use to Connection records.                                   *)
(***************************************************************************)
Connection(address, bonding_data, rssi) ==
    [address |-> address, bonding_data |-> bonding_data, opened |-> FALSE,
     rssi |-> rssi, service |-> None, characteristic |-> None,
     notification |-> FALSE]

\* The empty dictionary.
EmptyMap == [x \in {} |-> 0]

ConnSet(c, h, e) == [x \in (DOMAIN c) \cup {h} |-> IF x = h THEN e ELSE c[x]]

ConnDel(c, h) == [x \in (DOMAIN c) \ {h} |-> c[x]]

\* A capacity check that lets every connect through.
connectable_unchecked(a) == TRUE

\* AccessPoint.connectable
connectable(a) == Cardinality(DOMAIN connections[a]) < limits.max_connections

(***************************************************************************)
(* The radio stack of an access point, as the host observes it.  A handle  *)
(* is "free", "opening" (open command accepted, no link yet) or "open".    *)
(* The stack hands out any free handle.  Closing a connection or           *)
(* cancelling a connection attempt frees the handle and emits the closed   *)
(* event, which then waits in apq for the access point's thread.           *)
(***************************************************************************)
\* GATT client of the stack for one link: the procedure that is running,
\* whether it has reported an attribute, and whether the notifications of
\* the link were requested.
NoProcedure == [proc |-> "idle", reported |-> FALSE, subscribed |-> FALSE]

FreeLink == [state |-> "free", peer |-> 0, gatt |-> NoProcedure]

\* The connection handles of the stack of a run.  The target may be built
\* for more connections than the host constant says.
StackHandles == 1..limits.handles

FreeHandles(l, a) == {h \in StackHandles : l[a][h].state = "free"}

HasFreeHandle(l, a) == FreeHandles(l, a) # {}

\* A peripheral has one link at most, and advertises while it has none.
Linked(p) ==
    \E a \in APs, h \in Handles :
        link[a][h].state = "open" /\ link[a][h].peer = p

Advertising(p) == p \in in_range /\ ~Linked(p)

\* status.BT_CTRL_CONNECTION_TERMINATED_BY_LOCAL_HOST and any other reason
LOCAL_HOST == "terminated_by_local_host"
REMOTE == "connection_timeout"

\* Stack events; peer is the device at the other end of the link the stack
\* sent the event for (the callbacks do not read it).
EvtBondingData(h, t, d, p) ==
    [type |-> "bt_evt_external_bondingdb_data", connection |-> h,
     bonding_type |-> t, data |-> d, peer |-> p]
EvtBondingDataRequest(h, t, p) ==
    [type |-> "bt_evt_external_bondingdb_data_request", connection |-> h,
     bonding_type |-> t, peer |-> p]
EvtOpened(h) == [type |-> "bt_evt_connection_opened", connection |-> h]
EvtClosed(h, reason) ==
    [type |-> "bt_evt_connection_closed", connection |-> h, reason |-> reason]

CmdOpen(a, p, h) == [cmd |-> "open", ap |-> a, address |-> p, connection |-> h]
CmdClose(a, h) == [cmd |-> "close", ap |-> a, connection |-> h]
CmdSetData(a, h, t, d) ==
    [cmd |-> "set_data", ap |-> a, connection |-> h, bonding_type |-> t,
     data |-> d]

\* A disconnect that sends nothing.
disconnect_skipped(a, h) == <<>>

\* AccessPoint.disconnect: the command it sends; a CommandFailedError of the
\* command is caught and logged.
disconnect(a, h) == <<CmdClose(a, h)>>

\* lib.bt.connection.open: the stack state after the command
StackOpen(l, a, h, p) ==
    [l EXCEPT ![a][h] = [state |-> "opening", peer |-> p, gatt |-> NoProcedure]]

\* lib.bt.connection.close: the stack state and the stack events after the
\* command; on a free handle the command fails with INVALID_HANDLE.
StackClose(l, a, h) == [l EXCEPT ![a][h] = FreeLink]

\* A stack event for the thread of access point a; nothing reads the events
\* of a thread that has ended, and the model drops them.
Emit(q, a, evt) == IF ap_alive[a] THEN [q EXCEPT ![a] = Append(@, evt)] ELSE q

\* A stack that reports the end of a connection for every close command.
StackCloseEvents_always(q, l, a, h) == Emit(q, a, EvtClosed(h, LOCAL_HOST))

StackCloseEvents(q, l, a, h) ==
    IF l[a][h].state = "free" THEN q
    ELSE Emit(q, a, EvtClosed(h, LOCAL_HOST))

(***************************************************************************)
(* Events of the access points to the coordinator (ApEvent classes).       *)
(***************************************************************************)
ApEventConnectionOpened == [type |-> "ApEventConnectionOpened"]
ApEventConnectionClosed == [type |-> "ApEventConnectionClosed"]
ApEventConnectionLost == [type |-> "ApEventConnectionLost"]
ApEventBondingDbChanged == [type |-> "ApEventBondingDbChanged"]
\* The field peer is not in the class: in a run that watches it, it names
\* the device the measured link leads to.
ApEventConnectionRssi(a, h, r) ==
    [type |-> "ApEventConnectionRssi", ap_id |-> a, connection |-> h, rssi |-> r,
     peer |-> IF limits.watch_peer THEN link[a][h].peer ELSE 0]
ApEventScanRssi(a, p, r) ==
    [type |-> "ApEventScanRssi", ap_id |-> a, address |-> p, rssi |-> r]
ApEventAnalyzerRssi(a, r) ==
    [type |-> "ApEventAnalyzerRssi", ap_id |-> a, rssi |-> r]

(***************************************************************************)
(* Scan task: NetworkCoordinator.scan_task, scan and AccessPoint.connect.  *)
(***************************************************************************)
\* No advertisement report was handled in this scan cycle.
NoReports == [p \in Peers |-> [a \in APs |-> None]]

ScanIdle == [pc |-> "wait", ap_list |-> {}, iter |-> 0, size |-> 0,
             wait_ap |-> 0, wait_h |-> 0, opened |-> FALSE, rssi |-> None]

\* NetworkCoordinator.get_bonding_data: the database after the call; the
\* value returned is the dictionary stored for the address itself.
get_bonding_data(db, address) ==
    IF address \in DOMAIN db THEN db
    ELSE [x \in (DOMAIN db) \cup {address} |-> IF x = address THEN EmptyMap ELSE db[x]]

\* The bonding_data argument scan and analyze_connection pass to connect: a
\* reference to the dictionary held by _bonding_db for the address.
BondingRef(address) == [ref |-> "db", address |-> address]

\* An acquire that never waits.
acquire_unlocked == TRUE

\* "with self._ap_lock": the task goes on when nobody holds the lock.
acquire == ap_lock = "free"

IsScanRssi(evt) == evt.type = "ApEventScanRssi"

IsAnalyzerRssi(evt) == evt.type = "ApEventAnalyzerRssi"

\* A scan() that keeps the result of the cycle before.
scan_result_kept == scan_result

\* scan(): self._scan_result = dict[tuple, dict]()
scan_result_reset == <<>>

\* scan_task: _start_scan.wait(), take _ap_lock, and scan() up to the sleep.
ScanStart ==
    /\ scan.pc = "wait"
    /\ start_scan
    /\ acquire
    /\ ap_lock' = "scan"
    /\ scan_result' = scan_result_reset
    /\ last_report' = NoReports
    /\ cycle' = IF limits.watch_cycle
                THEN [carried |-> Len(SelectSeq(event_queue, IsScanRssi)),
                      stale |-> {}, lost |-> FALSE]
                ELSE cycle
    /\ LET scan_ap_list == {a \in ap_dict : connectable(a)}
       IN /\ scan' = [ScanIdle EXCEPT !.pc = "scanning", !.ap_list = scan_ap_list]
          /\ scanning' = [a \in APs |-> scanning[a] \/ a \in scan_ap_list]
    /\ cmds' = <<>>
    /\ UNCHANGED <<limits, newest, ready, second_cycle, heard, window, main, observed, debounce, ap_dict, in_range, rssi_threshold, connections, link,
                   apq, ap_alive, analyzer, an_session, event_queue,
                   analyzer_queue, start_scan, analyzer_result, an, bonding_db,
                   bonding_db_dirty, flush, bonding_file>>

\* scan() after the sleep: stop the scanners, return when nothing was found,
\* else start the iteration over _scan_result.items().
ScanStop ==
    /\ scan.pc = "scanning"
    /\ scanning' = [a \in APs |-> scanning[a] /\ a \notin scan.ap_list]
    /\ IF Len(scan_result) = 0
       THEN /\ scan' = [ScanIdle EXCEPT !.pc = "clear"]
            /\ ap_lock' = "free"
       ELSE /\ scan' = [ScanIdle EXCEPT !.pc = "loop", !.iter = 1,
                                        !.size = Len(scan_result)]
            /\ ap_lock' = ap_lock
    /\ cmds' = <<>>
    /\ UNCHANGED <<limits, newest, ready, second_cycle, heard, window, cycle, main, observed, debounce, last_report, ap_dict, in_range, rssi_threshold, connections, link, apq,
                   ap_alive, analyzer, an_session, event_queue, analyzer_queue,
                   start_scan, scan_result, analyzer_result, an, bonding_db,
                   bonding_db_dirty, flush, bonding_file>>

\* One step of the iteration of scan(): the iterator raises RuntimeError when
\* the dictionary changed size, else the next device is filtered, the access
\* point with the largest RSSI is picked and connect() runs up to its wait.
ScanLoop ==
    /\ scan.pc = "loop"
    /\ IF Len(scan_result) # scan.size
       THEN \* RuntimeError: dictionary changed size during iteration
            /\ scan' = [ScanIdle EXCEPT !.pc = "dead"]
            /\ ap_lock' = "free"
            /\ cmds' = <<>>
            /\ UNCHANGED <<connections, link, bonding_db>>
       ELSE IF scan.iter > scan.size
       THEN /\ scan' = [ScanIdle EXCEPT !.pc = "clear"]
            /\ ap_lock' = "free"
            /\ cmds' = <<>>
            /\ UNCHANGED <<connections, link, bonding_db>>
       ELSE LET address == scan_result[scan.iter][1]
                result == Filter(scan_result[scan.iter][2],
                                 {a \in ap_dict : connectable(a)})
            IN IF Len(result) = 0
               THEN /\ scan' = [scan EXCEPT !.iter = @ + 1]
                    /\ cmds' = <<>>
                    /\ UNCHANGED <<ap_lock, connections, link, bonding_db>>
               ELSE LET ap_id == MaxKey(result)
                    IN /\ bonding_db' = get_bonding_data(bonding_db, address)
                       /\ IF ~HasFreeHandle(link, ap_id)
                          THEN \* CommandFailedError from connection.open
                               /\ scan' = [ScanIdle EXCEPT !.pc = "dead"]
                               /\ ap_lock' = "free"
                               /\ cmds' = <<>>
                               /\ UNCHANGED <<connections, link>>
                          ELSE \E h \in FreeHandles(link, ap_id) :
                                  /\ link' = StackOpen(link, ap_id, h, address)
                                  /\ IF limits.split_connect
                                     THEN \* the open command has returned
                                          /\ connections' = connections
                                          /\ scan' = [scan EXCEPT
                                                !.pc = "insert",
                                                !.wait_ap = ap_id,
                                                !.wait_h = h,
                                                !.opened = FALSE,
                                                !.rssi = Get(result, ap_id)]
                                     ELSE /\ connections' =
                                             [connections EXCEPT ![ap_id] =
                                                ConnSet(@, h,
                                                    Connection(address,
                                                        BondingRef(address),
                                                        Get(result, ap_id)))]
                                          /\ scan' = [scan EXCEPT
                                                !.pc = "connect",
                                                !.wait_ap = ap_id,
                                                !.wait_h = h,
                                                !.opened = FALSE]
                                  /\ cmds' = <<CmdOpen(ap_id, address, h)>>
                                  /\ ap_lock' = ap_lock
    /\ newest' = IF limits.watch_newest /\ scan'.pc = "connect"
                  THEN <<scan'.wait_ap, scan'.wait_h>> ELSE newest
    /\ UNCHANGED <<limits, ready, second_cycle, heard, window, cycle, main, observed, debounce, last_report, ap_dict, in_range, rssi_threshold, apq, ap_alive, scanning,
                   analyzer, an_session, event_queue, analyzer_queue,
                   start_scan, scan_result, analyzer_result, an,
                   bonding_db_dirty, flush, bonding_file>>

\* AccessPoint.connect after the open command has returned, in a run that
\* takes the command and the assignment to self.connections as two steps:
\* the Connection is stored and the wait begins.
ScanInsert ==
    /\ scan.pc = "insert"
    /\ connections' =
          [connections EXCEPT ![scan.wait_ap] =
              ConnSet(@, scan.wait_h,
                  Connection(scan_result[scan.iter][1],
                             BondingRef(scan_result[scan.iter][1]),
                             scan.rssi))]
    /\ scan' = [scan EXCEPT !.pc = "connect", !.rssi = None]
    /\ cmds' = <<>>
    /\ UNCHANGED <<limits, newest, ready, second_cycle, heard, window, cycle, main, observed, debounce, last_report, ap_dict, in_range, rssi_threshold, link, apq,
                   ap_alive, scanning, analyzer, an_session, event_queue,
                   analyzer_queue, ap_lock, start_scan, scan_result,
                   analyzer_result, an, bonding_db, bonding_db_dirty, flush,
                   bonding_file>>

\* AccessPoint.connect after the open command, when opened.wait() returns
\* True: the Connection the task waits for had its opened event set.
ScanConnectOpened ==
    /\ scan.pc = "connect"
    /\ scan.opened
    /\ scan' = [scan EXCEPT !.pc = "loop", !.iter = @ + 1, !.wait_ap = 0,
                            !.wait_h = 0, !.opened = FALSE]
    /\ cmds' = <<>>
    /\ UNCHANGED <<limits, newest, ready, second_cycle, heard, window, cycle, main, observed, debounce, last_report, ap_dict, in_range, rssi_threshold, connections, link, apq,
                   ap_alive, scanning, analyzer, an_session, event_queue,
                   analyzer_queue, ap_lock, start_scan, scan_result,
                   analyzer_result, an, bonding_db, bonding_db_dirty, flush,
                   bonding_file>>

\* AccessPoint.connect when opened.wait() times out: disconnect().
ScanConnectTimeout ==
    /\ scan.pc = "connect"
    /\ ~scan.opened
    /\ Len(apq[scan.wait_ap]) < limits.apq
    /\ link' = StackClose(link, scan.wait_ap, scan.wait_h)
    /\ apq' = StackCloseEvents(apq, link, scan.wait_ap, scan.wait_h)
    /\ scan' = [scan EXCEPT !.pc = "loop", !.iter = @ + 1, !.wait_ap = 0,
                            !.wait_h = 0, !.opened = FALSE]
    /\ cmds' = disconnect(scan.wait_ap, scan.wait_h)
    /\ UNCHANGED <<limits, newest, ready, second_cycle, heard, window, cycle, main, observed, debounce, last_report, ap_dict, in_range, rssi_threshold, connections, ap_alive,
                   scanning, analyzer, an_session, event_queue, analyzer_queue,
                   ap_lock, start_scan, scan_result, analyzer_result, an,
                   bonding_db, bonding_db_dirty, flush, bonding_file>>

\* scan_task after scan() returned and the lock was released.
ScanClear ==
    /\ scan.pc = "clear"
    /\ start_scan' = FALSE
    /\ scan' = ScanIdle
    /\ cmds' = <<>>
    /\ UNCHANGED <<limits, newest, ready, second_cycle, heard, window, cycle, main, observed, debounce, last_report, ap_dict, in_range, rssi_threshold, connections, link, apq,
                   ap_alive, scanning, analyzer, an_session, event_queue,
                   analyzer_queue, ap_lock, scan_result, analyzer_result, an,
                   bonding_db, bonding_db_dirty, flush, bonding_file>>

\* NetworkCoordinator.scan_scheduler
ScanScheduler ==
    /\ ~start_scan
    /\ start_scan' = TRUE
    /\ cmds' = <<>>
    /\ UNCHANGED <<limits, newest, ready, second_cycle, heard, window, cycle, main, observed, debounce, last_report, ap_dict, in_range, rssi_threshold, connections, link, apq,
                   ap_alive, scanning, analyzer, an_session, event_queue,
                   analyzer_queue, ap_lock, scan_result, analyzer_result, scan,
                   an, bonding_db, bonding_db_dirty, flush, bonding_file>>

(***************************************************************************)
(* Analyzer task: NetworkCoordinator.analyzer_task and analyze_connection. *)
(***************************************************************************)
AnIdle == [pc |-> "get", ap_id |-> 0, connection |-> 0, rssi |-> 0,
           address |-> 0, ap_list |-> {}, wait_ap |-> 0, wait_h |-> 0,
           opened |-> FALSE, peer |-> 0]

NoSession == [ap |-> 0, connection |-> 0, n |-> 0]

\* A loop that compares with the best value only and leaves out the threshold.
RECURSIVE BestAp_no_threshold(_, _, _, _)
BestAp_no_threshold(result, best_ap, best_rssi, threshold) ==
    IF result = <<>> THEN <<best_ap, best_rssi>>
    ELSE LET _ap_id == Head(result)[1]
             _rssi == Head(result)[2]
         IN IF _rssi > best_rssi
            THEN BestAp_no_threshold(Tail(result), _ap_id, _rssi, threshold)
            ELSE BestAp_no_threshold(Tail(result), best_ap, best_rssi, threshold)

\* The loop of analyze_connection over _analyzer_result.items():
\* <<best_ap, best_rssi>>, values in units of 1/Scale dBm.
RECURSIVE BestAp(_, _, _, _)
BestAp(result, best_ap, best_rssi, threshold) ==
    IF result = <<>> THEN <<best_ap, best_rssi>>
    ELSE LET _ap_id == Head(result)[1]
             _rssi == Head(result)[2]
         IN IF _rssi > best_rssi /\ _rssi > threshold * Scale
            THEN BestAp(Tail(result), _ap_id, _rssi, threshold)
            ELSE BestAp(Tail(result), best_ap, best_rssi, threshold)

\* A conversion that rounds down.
ToInt_floor(x) == x \div Scale

\* int(best_rssi): truncation towards zero
ToInt(x) == IF x >= 0 THEN x \div Scale ELSE -((-x) \div Scale)

\* A list that leaves the owner of the connection in.
AnalysisParticipants_all(ap_id) == {a \in ap_dict : connectable(a)}

\* analyze_connection:
\* [ap for ap in self.ap_dict.values() if ap.connectable and ap.id != ap_id]
AnalysisParticipants(ap_id) == {a \in ap_dict : connectable(a) /\ a # ap_id}

\* "for ap in ap_list: ap.start_analyzer(conn_params)": the access points the
\* loop has started when it ends, normally or with the exception of the
\* first access point whose command fails; ap_dict is in the order of the ids.
StartedBefore(ap_list, failing) ==
    {a \in ap_list : \A b \in failing : a < b}

\* analyzer_task: take a request from _analyzer_queue and check that the
\* connection still exists.
AnalyzerGet ==
    /\ an.pc = "get"
    /\ analyzer_queue # <<>>
    /\ analyzer_queue' = Tail(analyzer_queue)
    /\ LET evt == Head(analyzer_queue)
       IN IF evt.connection \in DOMAIN connections[evt.ap_id]
          THEN an' = [AnIdle EXCEPT !.pc = "lock", !.ap_id = evt.ap_id,
                                    !.connection = evt.connection,
                                    !.rssi = evt.rssi, !.peer = evt.peer]
          ELSE an' = AnIdle
    /\ cmds' = <<>>
    /\ UNCHANGED <<limits, newest, ready, second_cycle, heard, window, cycle, main, observed, debounce, last_report, ap_dict, in_range, rssi_threshold, connections, link, apq,
                   ap_alive, scanning, analyzer, an_session, event_queue,
                   ap_lock, start_scan, scan_result, analyzer_result, scan,
                   bonding_db, bonding_db_dirty, flush, bonding_file>>

\* analyzer_task takes _ap_lock; analyze_connection up to the sleep.
AnalyzerStart ==
    /\ an.pc = "lock"
    /\ acquire
    /\ analyzer_result' = <<>>
    /\ window' =
          IF limits.watch_window
          THEN [carried |-> Len(SelectSeq(event_queue, IsAnalyzerRssi)),
                stale |-> {}]
          ELSE window
    /\ IF \/ link[an.ap_id][an.connection].state # "open"
          \/ an.connection \notin DOMAIN connections[an.ap_id]
       THEN \* CommandFailedError from get_scheduling_details, or KeyError
            /\ an' = [AnIdle EXCEPT !.pc = "dead"]
            /\ UNCHANGED <<ap_lock, analyzer, an_session>>
       ELSE LET ap_list == AnalysisParticipants(an.ap_id)
                \* the access points whose start command fails, and those
                \* the loop has started before it reaches the first of them
                failing == ap_list \cap limits.no_analyzer
                started == StartedBefore(ap_list, failing)
            IN IF ap_list = {}
               THEN /\ an' = AnIdle
                    /\ UNCHANGED <<ap_lock, analyzer, an_session>>
               ELSE /\ IF failing = {}
                       THEN /\ ap_lock' = "analyzer"
                            /\ an' = [an EXCEPT !.pc = "analyzing",
                                         !.address =
                                            connections[an.ap_id][an.connection].address,
                                         !.ap_list = ap_list]
                       ELSE \* CommandFailedError from connection_analyzer.start
                            /\ ap_lock' = ap_lock
                            /\ an' = [AnIdle EXCEPT !.pc = "dead"]
                    \* AccessPoint.start_analyzer
                    /\ analyzer' = [a \in APs |->
                                      IF a \in started /\ analyzer[a] = None
                                      THEN 1 ELSE analyzer[a]]
                    /\ an_session' = [a \in APs |->
                                      IF a \in started /\ analyzer[a] = None
                                      THEN [ap |-> an.ap_id,
                                            connection |-> an.connection, n |-> 0]
                                      ELSE an_session[a]]
    /\ cmds' = <<>>
    /\ UNCHANGED <<limits, newest, ready, second_cycle, heard, cycle, main, observed, debounce, last_report, ap_dict, in_range, rssi_threshold, connections, link, apq,
                   ap_alive, scanning, event_queue, analyzer_queue, start_scan,
                   scan_result, scan, bonding_db, bonding_db_dirty, flush,
                   bonding_file>>

\* analyze_connection after the sleep: stop the analyzers, pick the best
\* access point and, when it is another one, disconnect and connect() up to
\* the wait of connect.
AnalyzerDecide ==
    /\ an.pc = "analyzing"
    \* AccessPoint.stop_analyzer
    /\ analyzer' = [a \in APs |-> IF a \in an.ap_list THEN None ELSE analyzer[a]]
    /\ an_session' = [a \in APs |->
                        IF a \in an.ap_list /\ analyzer[a] # None
                        THEN NoSession ELSE an_session[a]]
    /\ LET best == BestAp(analyzer_result, an.ap_id, an.rssi * Scale,
                          rssi_threshold)
           best_ap == best[1]
           best_rssi == best[2]
           closed_link == StackClose(link, an.ap_id, an.connection)
           closed_apq == StackCloseEvents(apq, link, an.ap_id, an.connection)
       IN IF analyzer_result = <<>> \/ best_ap = an.ap_id
          THEN /\ an' = AnIdle
               /\ ap_lock' = "free"
               /\ cmds' = <<>>
               /\ UNCHANGED <<connections, link, apq, bonding_db>>
          ELSE /\ Len(apq[an.ap_id]) < limits.apq
               /\ apq' = closed_apq
               /\ bonding_db' = get_bonding_data(bonding_db, an.address)
               /\ IF ~connectable(best_ap) \/ ~HasFreeHandle(closed_link, best_ap)
                  THEN \* RuntimeError of connect, or CommandFailedError
                       /\ an' = [AnIdle EXCEPT !.pc = "dead"]
                       /\ ap_lock' = "free"
                       /\ link' = closed_link
                       /\ cmds' = disconnect(an.ap_id, an.connection)
                       /\ UNCHANGED connections
                  ELSE \E h \in FreeHandles(closed_link, best_ap) :
                          /\ link' = StackOpen(closed_link, best_ap, h, an.address)
                          /\ connections' =
                                [connections EXCEPT ![best_ap] =
                                    ConnSet(@, h,
                                        Connection(an.address,
                                                   BondingRef(an.address),
                                                   ToInt(best_rssi)))]
                          /\ an' = [an EXCEPT !.pc = "connect",
                                              !.wait_ap = best_ap,
                                              !.wait_h = h, !.opened = FALSE]
                          /\ cmds' = disconnect(an.ap_id, an.connection)
                                       \o <<CmdOpen(best_ap, an.address, h)>>
                          /\ ap_lock' = ap_lock
    /\ newest' = IF limits.watch_newest /\ an'.pc = "connect"
                  THEN <<an'.wait_ap, an'.wait_h>> ELSE newest
    /\ UNCHANGED <<limits, ready, second_cycle, heard, window, cycle, main, observed, debounce, last_report, ap_dict, in_range, rssi_threshold, ap_alive, scanning,
                   event_queue, analyzer_queue, start_scan, scan_result,
                   analyzer_result, scan, bonding_db_dirty, flush,
                   bonding_file>>

\* AccessPoint.connect called by analyze_connection: opened.wait() is True.
AnalyzerConnectOpened ==
    /\ an.pc = "connect"
    /\ an.opened
    /\ an' = AnIdle
    /\ ap_lock' = "free"
    /\ cmds' = <<>>
    /\ UNCHANGED <<limits, newest, ready, second_cycle, heard, window, cycle, main, observed, debounce, last_report, ap_dict, in_range, rssi_threshold, connections, link, apq,
                   ap_alive, scanning, analyzer, an_session, event_queue,
                   analyzer_queue, start_scan, scan_result, analyzer_result,
                   scan, bonding_db, bonding_db_dirty, flush, bonding_file>>

\* AccessPoint.connect called by analyze_connection: the wait times out.
AnalyzerConnectTimeout ==
    /\ an.pc = "connect"
    /\ ~an.opened
    /\ Len(apq[an.wait_ap]) < limits.apq
    /\ link' = StackClose(link, an.wait_ap, an.wait_h)
    /\ apq' = StackCloseEvents(apq, link, an.wait_ap, an.wait_h)
    /\ an' = AnIdle
    /\ ap_lock' = "free"
    /\ cmds' = disconnect(an.wait_ap, an.wait_h)
    /\ UNCHANGED <<limits, newest, ready, second_cycle, heard, window, cycle, main, observed, debounce, last_report, ap_dict, in_range, rssi_threshold, connections, ap_alive,
                   scanning, analyzer, an_session, event_queue, analyzer_queue,
                   start_scan, scan_result, analyzer_result, scan, bonding_db,
                   bonding_db_dirty, flush, bonding_file>>

(***************************************************************************)
(* The thread of an access point (GenericApp.run) and its callbacks.       *)
(***************************************************************************)
\* bt_evt_external_bondingdb_data: bonding_data[evt.type] = evt.data, where
\* bonding_data is the dictionary _bonding_db holds for the address of the
\* Connection; the database after the callback.
bondingdb_data(db, bonding_data, type, data) ==
    [db EXCEPT ![bonding_data.address] = ConnSet(@, type, data)]

\* bt_evt_external_bondingdb_data_request: bonding_data.get(evt.type, b"")
bondingdb_data_request(db, bonding_data, type) ==
    IF type \in DOMAIN db[bonding_data.address]
    THEN db[bonding_data.address][type] ELSE <<>>

\* A bonding mutation that belongs to the first debounce window: the one that
\* makes the flag dirty for the first time, or one that happens while
\* bonding_db_task sleeps in its first window.
InWindow ==
    \/ debounce.mutations = 0 /\ debounce.windows = 0
    \/ flush.pc = "sleep" /\ debounce.windows = 1

\* The stack events of the GATT discovery of a connection.
GattEvents ==
    {"bt_evt_connection_parameters", "bt_evt_gatt_service",
     "bt_evt_gatt_characteristic", "bt_evt_gatt_procedure_completed"}

\* The stack takes a GATT command for a link that is up and has no procedure
\* running; else the command fails.
GattAccepts(l, a, h) == l[a][h].state = "open" /\ l[a][h].gatt.proc = "idle"

\* A callback sends a GATT command that starts the procedure proc: the stack
\* starts it, or the command raises CommandFailedError, which run() catches
\* to leave its loop.  cmds holds the command in both cases.
GattCommand(a, h, proc, cmd) ==
    IF GattAccepts(link, a, h)
    THEN /\ link' = [link EXCEPT ![a][h].gatt =
                        [proc |-> proc, reported |-> FALSE,
                         subscribed |-> @.subscribed \/ proc = "notification"]]
         /\ cmds' = <<cmd>>
         /\ ap_alive' = ap_alive
         /\ apq' = [apq EXCEPT ![a] = Tail(@)]
    ELSE /\ link' = link
         /\ cmds' = <<cmd>>
         /\ ap_alive' = [ap_alive EXCEPT ![a] = FALSE]
         /\ apq' = [apq EXCEPT ![a] = <<>>]

\* A callback that sends nothing.
GattNoCommand(a) ==
    /\ link' = link
    /\ cmds' = <<>>
    /\ ap_alive' = ap_alive
    /\ apq' = [apq EXCEPT ![a] = Tail(@)]

\* bt_evt_connection_parameters, bt_evt_gatt_service,
\* bt_evt_gatt_characteristic and bt_evt_gatt_procedure_completed for an
\* event whose connection is in self.connections where the callback reads it.
GattCallback(a, evt) ==
    LET h == evt.connection
    IN /\ IF evt.type = "bt_evt_connection_parameters"
          THEN /\ IF evt.security_mode # 0
                  THEN GattCommand(a, h, "services",
                           [cmd |-> "discover_primary_services_by_uuid",
                            ap |-> a, connection |-> h])
                  ELSE GattNoCommand(a)
               /\ connections' = connections
          ELSE IF evt.type = "bt_evt_gatt_service"
          THEN /\ connections' = [connections EXCEPT ![a][h].service = evt.service]
               /\ GattNoCommand(a)
          ELSE IF evt.type = "bt_evt_gatt_characteristic"
          THEN /\ connections' =
                     [connections EXCEPT ![a][h].characteristic = evt.characteristic]
               /\ GattNoCommand(a)
          ELSE \* bt_evt_gatt_procedure_completed
               IF evt.result # "OK"
               THEN /\ connections' = connections
                    /\ GattNoCommand(a)
               ELSE IF connections[a][h].characteristic = None
               THEN /\ connections' = connections
                    /\ IF connections[a][h].service = None
                       THEN \* the command cannot be sent without a service
                            \* handle: the exception ends the thread
                            /\ link' = link
                            /\ cmds' = <<>>
                            /\ ap_alive' = [ap_alive EXCEPT ![a] = FALSE]
                            /\ apq' = [apq EXCEPT ![a] = <<>>]
                       ELSE GattCommand(a, h, "characteristics",
                                [cmd |-> "discover_characteristics_by_uuid",
                                 ap |-> a, connection |-> h,
                                 service |-> connections[a][h].service])
               ELSE IF ~connections[a][h].notification
               THEN /\ GattCommand(a, h, "notification",
                           [cmd |-> "set_characteristic_notification",
                            ap |-> a, connection |-> h,
                            characteristic |-> connections[a][h].characteristic])
                    /\ connections' =
                          IF GattAccepts(link, a, h)
                          THEN [connections EXCEPT ![a][h].notification = TRUE]
                          ELSE connections
               ELSE /\ connections' = connections
                    /\ GattNoCommand(a)
       /\ UNCHANGED <<event_queue, scan, an, bonding_db, observed, debounce>>

\* GenericApp.run takes the next stack event and calls its callback:
\* bt_evt_connection_opened, bt_evt_connection_closed,
\* bt_evt_external_bondingdb_data, bt_evt_external_bondingdb_data_request or
\* one of GattEvents.  A KeyError raised by a callback ends the thread.
ApRun(a) ==
    /\ ap_alive[a]
    /\ apq[a] # <<>>
    /\ \/ Len(event_queue) < limits.queue
       \/ Head(apq[a]).type = "bt_evt_external_bondingdb_data_request"
       \/ Head(apq[a]).type \in GattEvents
    /\ LET evt == Head(apq[a])
           h == evt.connection
       IN IF /\ h \notin DOMAIN connections[a]
             /\ evt.type # "bt_evt_connection_parameters"
             /\ ~(/\ evt.type = "bt_evt_gatt_procedure_completed"
                  /\ evt.result # "OK")
          THEN \* KeyError: self.connections[evt.connection]
               /\ ap_alive' = [ap_alive EXCEPT ![a] = FALSE]
               /\ apq' = [apq EXCEPT ![a] = <<>>]
               /\ cmds' = <<>>
               /\ UNCHANGED <<connections, link, event_queue, scan, an,
                              bonding_db, observed, debounce>>
          ELSE IF evt.type \in GattEvents
          THEN GattCallback(a, evt)
          ELSE /\ ap_alive' = ap_alive
               /\ link' = link
               /\ apq' = [apq EXCEPT ![a] = Tail(@)]
               /\ IF evt.type = "bt_evt_connection_opened"
                  THEN /\ connections' = [connections EXCEPT ![a][h].opened = TRUE]
                       /\ event_queue' = Append(event_queue, ApEventConnectionOpened)
                       \* the Event a connect() call may be waiting for
                       /\ scan' = IF scan.pc = "connect" /\ scan.wait_ap = a
                                     /\ scan.wait_h = h
                                  THEN [scan EXCEPT !.opened = TRUE] ELSE scan
                       /\ an' = IF an.pc = "connect" /\ an.wait_ap = a
                                   /\ an.wait_h = h
                                THEN [an EXCEPT !.opened = TRUE] ELSE an
                       /\ cmds' = <<>>
                       /\ UNCHANGED <<bonding_db, observed, debounce>>
                  ELSE IF evt.type = "bt_evt_connection_closed"
                  THEN /\ connections' = [connections EXCEPT ![a] = ConnDel(@, h)]
                       /\ event_queue' =
                             Append(event_queue,
                                    IF evt.reason = LOCAL_HOST
                                    THEN ApEventConnectionClosed
                                    ELSE ApEventConnectionLost)
                       /\ cmds' = <<>>
                       /\ UNCHANGED <<scan, an, bonding_db, observed, debounce>>
                  ELSE IF evt.type = "bt_evt_external_bondingdb_data"
                  THEN /\ bonding_db' =
                             bondingdb_data(bonding_db,
                                            connections[a][h].bonding_data,
                                            evt.bonding_type, evt.data)
                       /\ event_queue' = Append(event_queue, ApEventBondingDbChanged)
                       /\ observed' =
                             [observed EXCEPT ![evt.peer][evt.bonding_type] =
                                 [data |-> evt.data, ap_id |-> a]]
                       /\ debounce' =
                             [debounce EXCEPT !.mutations = @ + 1,
                                              !.late = @ \/ ~InWindow]
                       /\ cmds' = <<>>
                       /\ UNCHANGED <<connections, scan, an>>
                  ELSE \* bt_evt_external_bondingdb_data_request
                       /\ cmds' =
                             <<CmdSetData(a, h, evt.bonding_type,
                                          bondingdb_data_request(
                                              bonding_db,
                                              connections[a][h].bonding_data,
                                              evt.bonding_type))>>
                       /\ UNCHANGED <<connections, event_queue, scan, an,
                                      bonding_db, observed, debounce>>
    /\ UNCHANGED <<limits, newest, ready, second_cycle, heard, window, cycle, main, last_report, ap_dict, in_range, rssi_threshold,
                   scanning, analyzer, an_session, analyzer_queue, ap_lock,
                   start_scan, scan_result, analyzer_result, bonding_db_dirty,
                   flush, bonding_file>>

\* AccessPoint._rssi_task for one connection: get_median_rssi succeeds on an
\* open link, the value is stored and reported.
RssiTask(a, h, r) ==
    /\ h \in DOMAIN connections[a]
    /\ link[a][h].state = "open"
    /\ Len(event_queue) < limits.queue
    /\ Len(analyzer_queue) < limits.analyzer_queue
    /\ connections' = [connections EXCEPT ![a][h].rssi = r]
    /\ event_queue' = Append(event_queue, ApEventConnectionRssi(a, h, r))
    /\ cmds' = <<>>
    /\ UNCHANGED <<limits, newest, ready, second_cycle, heard, window, cycle, main, observed, debounce, last_report, ap_dict, in_range, rssi_threshold, link, apq, ap_alive,
                   scanning, analyzer, an_session, analyzer_queue, ap_lock,
                   start_scan, scan_result, analyzer_result, scan, an,
                   bonding_db, bonding_db_dirty, flush, bonding_file>>

\* bt_evt_scanner_legacy_advertisement_report for a connectable advertisement
\* that passes scan_filter.
AdvReport(a, p, r) ==
    /\ ap_alive[a]
    /\ scanning[a]
    /\ Advertising(p)
    /\ Len(event_queue) < limits.queue
    /\ event_queue' = Append(event_queue, ApEventScanRssi(a, p, r))
    /\ cmds' = <<>>
    /\ UNCHANGED <<limits, newest, ready, second_cycle, heard, window, cycle, main, observed, debounce, last_report, ap_dict, in_range, rssi_threshold, connections, link, apq,
                   ap_alive, scanning, analyzer, an_session, analyzer_queue,
                   ap_lock, start_scan, scan_result, analyzer_result, scan, an,
                   bonding_db, bonding_db_dirty, flush, bonding_file>>

\* bt_evt_connection_analyzer_report with a valid peripheral RSSI: the
\* session hears the peripheral while the analyzed link is open.
AnalyzerReport(a, r) ==
    /\ ap_alive[a]
    /\ analyzer[a] # None
    /\ an_session[a] # NoSession
    /\ link[an_session[a].ap][an_session[a].connection].state = "open"
    /\ an_session[a].n < limits.samples
    /\ Len(event_queue) < limits.queue
    /\ an_session' = [an_session EXCEPT ![a].n = @ + 1]
    /\ event_queue' = Append(event_queue, ApEventAnalyzerRssi(a, r))
    /\ cmds' = <<>>
    /\ UNCHANGED <<limits, newest, ready, second_cycle, heard, window, cycle, main, observed, debounce, last_report, ap_dict, in_range, rssi_threshold, connections, link, apq,
                   ap_alive, scanning, analyzer, analyzer_queue, ap_lock,
                   start_scan, scan_result, analyzer_result, scan, an,
                   bonding_db, bonding_db_dirty, flush, bonding_file>>

(***************************************************************************)
(* The radio: links come up and break.                                     *)
(***************************************************************************)
LinkOpened(a, h) ==
    /\ link[a][h].state = "opening"
    /\ Advertising(link[a][h].peer)
    /\ Len(apq[a]) < limits.apq
    /\ link' = [link EXCEPT ![a][h].state = "open"]
    /\ apq' = Emit(apq, a, EvtOpened(h))
    /\ cmds' = <<>>
    /\ UNCHANGED <<limits, newest, ready, second_cycle, heard, window, cycle, main, observed, debounce, last_report, ap_dict, in_range, rssi_threshold, connections, ap_alive,
                   scanning, analyzer, an_session, event_queue, analyzer_queue,
                   ap_lock, start_scan, scan_result, analyzer_result, scan, an,
                   bonding_db, bonding_db_dirty, flush, bonding_file>>

LinkLost(a, h) ==
    /\ link[a][h].state = "open"
    /\ Len(apq[a]) < limits.apq
    /\ link' = [link EXCEPT ![a][h] = FreeLink]
    /\ apq' = Emit(apq, a, EvtClosed(h, REMOTE))
    /\ cmds' = <<>>
    /\ UNCHANGED <<limits, newest, ready, second_cycle, heard, window, cycle, main, observed, debounce, last_report, ap_dict, in_range, rssi_threshold, connections, ap_alive,
                   scanning, analyzer, an_session, event_queue, analyzer_queue,
                   ap_lock, start_scan, scan_result, analyzer_result, scan, an,
                   bonding_db, bonding_db_dirty, flush, bonding_file>>

\* The stack of the access point hands bonding material of the link to the
\* host, or asks the host for it.
StackBondingData(a, h, t, d) ==
    /\ link[a][h].state = "open"
    /\ Len(apq[a]) < limits.apq
    /\ debounce.mutations
          + Cardinality({<<b, i>> \in APs \X (1..MaxApq) :
                i <= Len(apq[b])
                /\ apq[b][i].type = "bt_evt_external_bondingdb_data"})
          < limits.mutations
    /\ apq' = Emit(apq, a, EvtBondingData(h, t, d, link[a][h].peer))
    /\ cmds' = <<>>
    /\ UNCHANGED <<limits, newest, ready, second_cycle, heard, window, cycle, main, observed, debounce, last_report, ap_dict, in_range,
                   rssi_threshold, connections, link, ap_alive, scanning,
                   analyzer, an_session, event_queue, analyzer_queue, ap_lock,
                   start_scan, scan_result, analyzer_result, scan, an,
                   bonding_db, bonding_db_dirty, flush, bonding_file>>

StackBondingDataRequest(a, h, t) ==
    /\ link[a][h].state = "open"
    /\ Len(apq[a]) < limits.apq
    /\ apq' = Emit(apq, a, EvtBondingDataRequest(h, t, link[a][h].peer))
    /\ cmds' = <<>>
    /\ UNCHANGED <<limits, newest, ready, second_cycle, heard, window, cycle, main, observed, debounce, last_report, ap_dict, in_range,
                   rssi_threshold, connections, link, ap_alive, scanning,
                   analyzer, an_session, event_queue, analyzer_queue, ap_lock,
                   start_scan, scan_result, analyzer_result, scan, an,
                   bonding_db, bonding_db_dirty, flush, bonding_file>>

\* The stack reports the parameters of the link: security_mode is 0 before
\* the link is encrypted and 1 or more after.
StackConnectionParameters(a, h, mode) ==
    /\ link[a][h].state = "open"
    /\ Len(apq[a]) < limits.apq
    /\ apq' = Emit(apq, a, [type |-> "bt_evt_connection_parameters",
                            connection |-> h, security_mode |-> mode])
    /\ cmds' = <<>>
    /\ UNCHANGED <<limits, newest, ready, second_cycle, heard, window, cycle, main, observed, debounce, last_report, ap_dict, in_range,
                   rssi_threshold, connections, link, ap_alive, scanning,
                   analyzer, an_session, event_queue, analyzer_queue, ap_lock,
                   start_scan, scan_result, analyzer_result, scan, an,
                   bonding_db, bonding_db_dirty, flush, bonding_file>>

\* A discovery procedure of the stack finds the attribute: bt_evt_gatt_service
\* or bt_evt_gatt_characteristic with its handle.
StackGattReport(a, h, handle) ==
    /\ link[a][h].state = "open"
    /\ link[a][h].gatt.proc \in {"services", "characteristics"}
    /\ ~link[a][h].gatt.reported
    /\ Len(apq[a]) < limits.apq
    /\ link' = [link EXCEPT ![a][h].gatt.reported = TRUE]
    /\ apq' = Emit(apq, a,
                   IF link[a][h].gatt.proc = "services"
                   THEN [type |-> "bt_evt_gatt_service", connection |-> h,
                         service |-> handle]
                   ELSE [type |-> "bt_evt_gatt_characteristic",
                         connection |-> h, characteristic |-> handle])
    /\ cmds' = <<>>
    /\ UNCHANGED <<limits, newest, ready, second_cycle, heard, window, cycle, main, observed, debounce, last_report, ap_dict, in_range,
                   rssi_threshold, connections, ap_alive, scanning,
                   analyzer, an_session, event_queue, analyzer_queue, ap_lock,
                   start_scan, scan_result, analyzer_result, scan, an,
                   bonding_db, bonding_db_dirty, flush, bonding_file>>

\* The procedure of the stack ends: bt_evt_gatt_procedure_completed with its
\* result; proc and reported tell which procedure ended and whether it found
\* the attribute (the callback does not read them).
StackGattCompleted(a, h, result) ==
    /\ link[a][h].state = "open"
    /\ link[a][h].gatt.proc # "idle"
    /\ Len(apq[a]) < limits.apq
    /\ link' = [link EXCEPT ![a][h].gatt.proc = "idle",
                            ![a][h].gatt.reported = FALSE]
    /\ apq' = Emit(apq, a, [type |-> "bt_evt_gatt_procedure_completed",
                            connection |-> h, result |-> result,
                            proc |-> link[a][h].gatt.proc,
                            reported |-> link[a][h].gatt.reported])
    /\ cmds' = <<>>
    /\ UNCHANGED <<limits, newest, ready, second_cycle, heard, window, cycle, main, observed, debounce, last_report, ap_dict, in_range,
                   rssi_threshold, connections, ap_alive, scanning,
                   analyzer, an_session, event_queue, analyzer_queue, ap_lock,
                   start_scan, scan_result, analyzer_result, scan, an,
                   bonding_db, bonding_db_dirty, flush, bonding_file>>

(***************************************************************************)
(* NetworkCoordinator.event_handler                                        *)
(***************************************************************************)
\* An update that keeps the first RSSI an access point reported for a device.
update_scan_result_first(result, evt) ==
    LET known == IF evt.address \in Keys(result) THEN result
                 ELSE Put(result, evt.address, <<>>)
    IN IF evt.ap_id \in Keys(Get(known, evt.address)) THEN known
       ELSE Put(known, evt.address,
                Put(Get(known, evt.address), evt.ap_id, evt.rssi))

\* NetworkCoordinator.update_scan_result
update_scan_result(result, evt) ==
    LET known == IF evt.address \in Keys(result) THEN result
                 ELSE Put(result, evt.address, <<>>)
    IN Put(known, evt.address, Put(Get(known, evt.address), evt.ap_id, evt.rssi))

\* An update that stores the sum of the values.
update_analyzer_result_sum(result, evt) ==
    IF evt.ap_id \notin Keys(result)
    THEN Put(result, evt.ap_id, evt.rssi * Scale)
    ELSE Put(result, evt.ap_id, Get(result, evt.ap_id) + evt.rssi * Scale)

\* NetworkCoordinator.update_analyzer_result
update_analyzer_result(result, evt) ==
    IF evt.ap_id \notin Keys(result)
    THEN Put(result, evt.ap_id, evt.rssi * Scale)
    ELSE Put(result, evt.ap_id, (Get(result, evt.ap_id) + evt.rssi * Scale) \div 2)

\* A start that does not wait for the access points.
AllReady_unchecked == TRUE

\* start(): ap.ready.wait(timeout=BOOT_TIMEOUT) is True for every access point
AllReady == \A a \in ap_dict : ready[a]

\* bt_evt_system_boot up to self.ready.set()
SystemBoot(a) ==
    /\ ap_alive[a]
    /\ ~ready[a]
    /\ ready' = [ready EXCEPT ![a] = TRUE]
    /\ cmds' = <<>>
    /\ UNCHANGED <<limits, newest, second_cycle, heard, window, cycle, main, observed,
                   debounce, last_report, ap_dict, in_range, rssi_threshold,
                   connections, link, apq, ap_alive, scanning, analyzer,
                   an_session, event_queue, analyzer_queue, ap_lock,
                   start_scan, scan_result, analyzer_result, scan, an,
                   bonding_db, bonding_db_dirty, flush, bonding_file>>

\* NetworkCoordinator.start after it has started the access points: the
\* waits end with every access point ready and the worker threads are
\* started, or a wait times out and RuntimeError leaves start and main.
start ==
    /\ main = "boot"
    /\ main' = IF AllReady THEN "run" ELSE "dead"
    /\ cmds' = <<>>
    /\ UNCHANGED <<limits, newest, ready, second_cycle, heard, window, cycle, observed,
                   debounce, last_report, ap_dict, in_range, rssi_threshold,
                   connections, link, apq, ap_alive, scanning, analyzer,
                   an_session, event_queue, analyzer_queue, ap_lock,
                   start_scan, scan_result, analyzer_result, scan, an,
                   bonding_db, bonding_db_dirty, flush, bonding_file>>

\* event_handler gives an ApEventScanRssi to update_scan_result, in the
\* first or in the second of two discovery cycles.
UpdateScanResult(a, p, r) ==
    /\ scan_result' = update_scan_result(scan_result, ApEventScanRssi(a, p, r))
    /\ cmds' = <<>>
    /\ UNCHANGED <<limits, newest, ready, second_cycle, heard, window, cycle, main, observed,
                   debounce, last_report, ap_dict, in_range, rssi_threshold,
                   connections, link, apq, ap_alive, scanning, analyzer,
                   an_session, event_queue, analyzer_queue, ap_lock,
                   start_scan, analyzer_result, scan, an, bonding_db,
                   bonding_db_dirty, flush, bonding_file>>

UpdateSecondCycle(a, p, r) ==
    /\ second_cycle' =
          update_scan_result(second_cycle, ApEventScanRssi(a, p, r))
    /\ cmds' = <<>>
    /\ UNCHANGED <<limits, newest, ready, heard, window, cycle, main, observed, debounce,
                   last_report, ap_dict, in_range, rssi_threshold, connections,
                   link, apq, ap_alive, scanning, analyzer, an_session,
                   event_queue, analyzer_queue, ap_lock, start_scan,
                   scan_result, analyzer_result, scan, an, bonding_db,
                   bonding_db_dirty, flush, bonding_file>>

\* scan(): the access point it connects a device to, given the entry of
\* _scan_result for the device.
ScanChoice(result) == MaxKey(Filter(result, {a \in ap_dict : connectable(a)}))

\* event_handler gives an ApEventAnalyzerRssi of access point a with the
\* value r to update_analyzer_result.
UpdateAnalyzerResult(a, r) ==
    /\ Len(heard[a]) < MaxHeard
    /\ analyzer_result' =
          update_analyzer_result(analyzer_result, ApEventAnalyzerRssi(a, r))
    /\ heard' = [heard EXCEPT ![a] = Append(@, r)]
    /\ cmds' = <<>>
    /\ UNCHANGED <<limits, newest, ready, second_cycle, window, cycle, main, observed, debounce, last_report,
                   ap_dict, in_range, rssi_threshold, connections, link, apq,
                   ap_alive, scanning, analyzer, an_session, event_queue,
                   analyzer_queue, ap_lock, start_scan, scan_result, scan, an,
                   bonding_db, bonding_db_dirty, flush, bonding_file>>

\* analyze_connection: self._analyzer_result = {}
ResetAnalyzerResult ==
    /\ analyzer_result # <<>>
    /\ analyzer_result' = <<>>
    /\ heard' = [a \in APs |-> <<>>]
    /\ cmds' = <<>>
    /\ UNCHANGED <<limits, newest, ready, second_cycle, window, cycle, main, observed, debounce, last_report,
                   ap_dict, in_range, rssi_threshold, connections, link, apq,
                   ap_alive, scanning, analyzer, an_session, event_queue,
                   analyzer_queue, ap_lock, start_scan, scan_result, scan, an,
                   bonding_db, bonding_db_dirty, flush, bonding_file>>

\* Every connection sample is put on _analyzer_queue.
TriggersAnalysis_always(evt) == TRUE

\* A sample at the threshold is queued as well.
TriggersAnalysis_inclusive(evt) == evt.rssi <= rssi_threshold

\* The event is put on _analyzer_queue.
TriggersAnalysis(evt) == evt.rssi < rssi_threshold

EventHandler ==
    /\ event_queue # <<>>
    /\ event_queue' = Tail(event_queue)
    /\ LET evt == Head(event_queue)
       IN /\ analyzer_queue' =
                IF evt.type = "ApEventConnectionRssi" /\ TriggersAnalysis(evt)
                THEN Append(analyzer_queue, evt) ELSE analyzer_queue
          /\ analyzer_result' =
                IF evt.type = "ApEventAnalyzerRssi"
                THEN update_analyzer_result(analyzer_result, evt)
                ELSE analyzer_result
          /\ scan_result' =
                IF evt.type = "ApEventScanRssi"
                THEN update_scan_result(scan_result, evt) ELSE scan_result
          /\ last_report' =
                IF evt.type = "ApEventScanRssi"
                THEN [last_report EXCEPT ![evt.address][evt.ap_id] = evt.rssi]
                ELSE last_report
          /\ cycle' =
                IF ~limits.watch_cycle THEN cycle
                ELSE IF evt.type = "ApEventScanRssi"
                THEN IF cycle.carried > 0
                     THEN [cycle EXCEPT !.carried = @ - 1,
                              !.stale = @ \cup {<<evt.address, evt.ap_id>>}]
                     ELSE [cycle EXCEPT
                              !.stale = @ \ {<<evt.address, evt.ap_id>>}]
                ELSE IF evt.type = "ApEventConnectionLost"
                THEN [cycle EXCEPT !.lost = TRUE]
                ELSE cycle
          /\ window' =
                IF limits.watch_window /\ IsAnalyzerRssi(evt)
                   /\ window.carried > 0
                THEN [carried |-> window.carried - 1,
                      stale |-> window.stale \cup {evt.ap_id}]
                ELSE window
          /\ start_scan' =
                IF evt.type = "ApEventConnectionLost" THEN TRUE ELSE start_scan
          /\ bonding_db_dirty' =
                IF evt.type = "ApEventBondingDbChanged" THEN TRUE
                ELSE bonding_db_dirty
          /\ debounce' =
                IF evt.type = "ApEventBondingDbChanged" /\ flush.pc = "sleep"
                THEN [debounce EXCEPT !.marked = TRUE]
                ELSE debounce
    /\ cmds' = <<>>
    /\ UNCHANGED <<limits, newest, ready, second_cycle, heard, main, observed, ap_dict, in_range, rssi_threshold, connections, link,
                   apq, ap_alive, scanning, analyzer, an_session, ap_lock, scan,
                   an, bonding_db, flush, bonding_file>>

(***************************************************************************)
(* The bonding file: save_bonding_db and load_bonding_db.  A text is a      *)
(* sequence of characters; the JSON object of the file is a function from  *)
(* key texts to values.  An address is a text already and is its own key.  *)
(***************************************************************************)
Digits == <<"0", "1", "2", "3", "4", "5", "6", "7", "8", "9",
            "a", "b", "c", "d", "e", "f">>

DigitValue(c) == (CHOOSE i \in 1..16 : Digits[i] = c) - 1

\* bytes.hex(): two lower case digits for every byte.
RECURSIVE hex(_)
hex(value) ==
    IF value = <<>> THEN <<>>
    ELSE <<Digits[(Head(value) \div 16) + 1], Digits[(Head(value) % 16) + 1]>>
         \o hex(Tail(value))

\* bytes.fromhex() of a text of digit pairs.
RECURSIVE fromhex(_)
fromhex(value) ==
    IF Len(value) < 2 THEN <<>>
    ELSE <<16 * DigitValue(value[1]) + DigitValue(value[2])>>
         \o fromhex(SubSeq(value, 3, Len(value)))

\* json.dump writes an integer key of a dictionary as its decimal text.
RECURSIVE json_key(_)
json_key(key) ==
    IF key < 10 THEN <<Digits[key + 1]>>
    ELSE Append(json_key(key \div 10), Digits[(key % 10) + 1])

\* An int() that reads the last digit only.
int_last_digit(key) == DigitValue(key[Len(key)])

\* int(key) of a decimal text.
RECURSIVE int(_)
int(key) ==
    IF Len(key) = 1 THEN DigitValue(key[1])
    ELSE 10 * int(SubSeq(key, 1, Len(key) - 1)) + DigitValue(key[Len(key)])

\* {key: value.hex() for key, value in data.items()} as json.dump writes it.
dump_data(data) ==
    [k \in {json_key(key) : key \in DOMAIN data} |->
        hex(data[CHOOSE key \in DOMAIN data : json_key(key) = k])]

\* save_bonding_db with no other thread running: the content of the file.
save_bonding_db(db_in) == [address \in DOMAIN db_in |-> dump_data(db_in[address])]

\* int(key) raises ValueError unless the text is a decimal number, and
\* bytes.fromhex(value) unless the text is made of pairs of hex digits.
IsDecimal(key) ==
    key # <<>> /\ \A i \in 1..Len(key) : key[i] \in {Digits[d] : d \in 1..10}

IsHex(value) ==
    /\ Len(value) % 2 = 0
    /\ \A i \in 1..Len(value) : value[i] \in {Digits[d] : d \in 1..16}

\* load_bonding_db raises: the comprehension meets a key or a value it
\* cannot convert, and nothing catches the ValueError.
load_raises(db_in) ==
    \E address \in DOMAIN db_in : \E k \in DOMAIN db_in[address] :
        ~IsDecimal(k) \/ ~IsHex(db_in[address][k])

\* load_bonding_db: {int(key): bytes.fromhex(value)} for every address; a
\* missing file gives the empty database, as the file "{}" does.
load_bonding_db(db_in) ==
    [address \in DOMAIN db_in |->
        [key \in {int(k) : k \in DOMAIN db_in[address]} |->
            fromhex(db_in[address][CHOOSE k \in DOMAIN db_in[address] :
                                      int(k) = key])]]

(***************************************************************************)
(* NetworkCoordinator.bonding_db_task                                      *)
(***************************************************************************)
FlushIdle == [pc |-> "wait", size |-> 0, todo |-> {}, address |-> None,
              data_size |-> 0, db_out |-> EmptyMap]

\* _bonding_db_dirty.wait() returns: the debounce window starts.
FlushWake ==
    /\ flush.pc = "wait"
    /\ bonding_db_dirty
    /\ flush' = [flush EXCEPT !.pc = "sleep"]
    /\ debounce' = [debounce EXCEPT !.windows = @ + 1, !.marked = FALSE]
    /\ cmds' = <<>>
    /\ UNCHANGED <<limits, newest, ready, second_cycle, heard, window, cycle, main, observed, last_report, ap_dict, in_range,
                   rssi_threshold, connections, link, apq, ap_alive, scanning,
                   analyzer, an_session, event_queue, analyzer_queue, ap_lock,
                   start_scan, scan_result, analyzer_result, scan, an,
                   bonding_db, bonding_db_dirty, bonding_file>>

\* time.sleep(1) is over: _bonding_db_dirty.clear()
FlushClear ==
    /\ flush.pc = "sleep"
    /\ bonding_db_dirty' = FALSE
    /\ flush' = [flush EXCEPT !.pc = "save"]
    /\ cmds' = <<>>
    /\ UNCHANGED <<limits, newest, ready, second_cycle, heard, window, cycle, main, observed, debounce, last_report, ap_dict, in_range,
                   rssi_threshold, connections, link, apq, ap_alive, scanning,
                   analyzer, an_session, event_queue, analyzer_queue, ap_lock,
                   start_scan, scan_result, analyzer_result, scan, an,
                   bonding_db, bonding_file>>

\* save_bonding_db is called: the iteration over db_in.items() starts.
FlushSaveStart ==
    /\ flush.pc = "save"
    /\ flush' = [FlushIdle EXCEPT !.pc = "items",
                                  !.size = Cardinality(DOMAIN bonding_db),
                                  !.todo = DOMAIN bonding_db]
    /\ debounce' = [debounce EXCEPT !.saves = @ + 1]
    /\ cmds' = <<>>
    /\ UNCHANGED <<limits, newest, ready, second_cycle, heard, window, cycle, main, observed, last_report, ap_dict, in_range,
                   rssi_threshold, connections, link, apq, ap_alive, scanning,
                   analyzer, an_session, event_queue, analyzer_queue, ap_lock,
                   start_scan, scan_result, analyzer_result, scan, an,
                   bonding_db, bonding_db_dirty, bonding_file>>

\* The next step of "for address, data in db_in.items()": RuntimeError
\* (dictionary changed size during iteration, which ends the thread) when an
\* address was added since the iteration started; json.dump of db_out when
\* all addresses are done; else the comprehension over data.items() starts.
FlushSaveItem ==
    /\ flush.pc = "items"
    /\ IF flush.size # Cardinality(DOMAIN bonding_db)
       THEN /\ flush' = [FlushIdle EXCEPT !.pc = "dead"]
            /\ bonding_file' = bonding_file
       ELSE IF flush.todo = {}
       THEN /\ flush' = FlushIdle
            /\ bonding_file' = flush.db_out
       ELSE /\ \E address \in flush.todo :
                  flush' = [flush EXCEPT !.pc = "data", !.address = address,
                               !.data_size = Cardinality(DOMAIN bonding_db[address])]
            /\ bonding_file' = bonding_file
    /\ cmds' = <<>>
    /\ UNCHANGED <<limits, newest, ready, second_cycle, heard, window, cycle, main, observed, debounce, last_report, ap_dict, in_range,
                   rssi_threshold, connections, link, apq, ap_alive, scanning,
                   analyzer, an_session, event_queue, analyzer_queue, ap_lock,
                   start_scan, scan_result, analyzer_result, scan, an,
                   bonding_db, bonding_db_dirty>>

\* The end of {key: value.hex() for key, value in data.items()}: RuntimeError
\* when a type was added to the dictionary since the comprehension started.
FlushSaveData ==
    /\ flush.pc = "data"
    /\ flush' =
          IF flush.data_size # Cardinality(DOMAIN bonding_db[flush.address])
          THEN [FlushIdle EXCEPT !.pc = "dead"]
          ELSE [flush EXCEPT !.pc = "items", !.address = None, !.data_size = 0,
                             !.todo = @ \ {flush.address},
                             !.db_out = ConnSet(@, flush.address,
                                                dump_data(bonding_db[flush.address]))]
    /\ cmds' = <<>>
    /\ UNCHANGED <<limits, newest, ready, second_cycle, heard, window, cycle, main, observed, debounce, last_report, ap_dict, in_range,
                   rssi_threshold, connections, link, apq, ap_alive, scanning,
                   analyzer, an_session, event_queue, analyzer_queue, ap_lock,
                   start_scan, scan_result, analyzer_result, scan, an,
                   bonding_db, bonding_db_dirty, bonding_file>>

BondingDbTask ==
    FlushWake \/ FlushClear \/ FlushSaveStart \/ FlushSaveItem \/ FlushSaveData

\* save_bonding_db called while no other thread runs.
SaveBondingDb ==
    /\ bonding_file' = save_bonding_db(bonding_db)
    /\ cmds' = <<>>
    /\ UNCHANGED <<limits, newest, ready, second_cycle, heard, window, cycle, main, observed, debounce, last_report, ap_dict, in_range,
                   rssi_threshold, connections, link, apq, ap_alive, scanning,
                   analyzer, an_session, event_queue, analyzer_queue, ap_lock,
                   start_scan, scan_result, analyzer_result, scan, an,
                   bonding_db, bonding_db_dirty, flush>>

\* The program is started again: NetworkCoordinator.__init__ loads the file;
\* an exception of load_bonding_db ends the main thread before any other
\* thread is started.
Restart ==
    /\ IF load_raises(bonding_file)
       THEN main' = "dead" /\ bonding_db' = EmptyMap
       ELSE main' = "run" /\ bonding_db' = load_bonding_db(bonding_file)
    /\ cmds' = <<>>
    /\ UNCHANGED <<limits, newest, ready, second_cycle, heard, window, cycle, observed, debounce, last_report, ap_dict,
                   in_range, rssi_threshold, connections, link, apq, ap_alive,
                   scanning, analyzer, an_session, event_queue, analyzer_queue,
                   ap_lock, start_scan, scan_result, analyzer_result, scan, an,
                   bonding_db_dirty, flush, bonding_file>>

\* Files whose content json.load accepts and load_bonding_db cannot convert:
\* a type key that is no number, a blob text of odd length, a blob text with
\* a letter that is no hex digit.
DamagedFiles ==
    {address :> (key :> value) :
        address \in Peers,
        <<key, value>> \in {<<<<"x">>, <<"f", "f">>>>, <<<<"1">>, <<"f">>>>,
                           <<<<"1">>, <<"g", "g">>>>}}

\* The file is changed from outside the program, while it does not run or
\* while it runs.
FileDamaged ==
    /\ bonding_file' \in DamagedFiles
    /\ cmds' = <<>>
    /\ UNCHANGED <<limits, newest, ready, second_cycle, heard, window, cycle, main, observed, debounce, last_report,
                   ap_dict, in_range, rssi_threshold, connections, link, apq,
                   ap_alive, scanning, analyzer, an_session, event_queue,
                   analyzer_queue, ap_lock, start_scan, scan_result,
                   analyzer_result, scan, an, bonding_db, bonding_db_dirty,
                   flush>>

\* Bonding material of a device is merged, with no radio in the model: the
\* get_bonding_data of connect and bt_evt_external_bondingdb_data at once.
BondingDataMerged(address, type, data) ==
    /\ bonding_db' = bondingdb_data(get_bonding_data(bonding_db, address),
                                    BondingRef(address), type, data)
    /\ cmds' = <<>>
    /\ UNCHANGED <<limits, newest, ready, second_cycle, heard, window, cycle, main, observed, debounce, last_report, ap_dict, in_range,
                   rssi_threshold, connections, link, apq, ap_alive, scanning,
                   analyzer, an_session, event_queue, analyzer_queue, ap_lock,
                   start_scan, scan_result, analyzer_result, scan, an,
                   bonding_db_dirty, flush, bonding_file>>

(***************************************************************************)
(* Initial states and specifications.                                      *)
(***************************************************************************)

\* The part of the bounds a run is started with.
RunLimits(max_connections, handles, apq_len, queue_len, samples, mutations) ==
    [max_connections |-> max_connections, handles |-> handles, apq |-> apq_len,
     queue |-> queue_len, analyzer_queue |-> MaxAnalyzerQueue,
     samples |-> samples, mutations |-> mutations, watch_cycle |-> FALSE,
     watch_window |-> FALSE, booted |-> TRUE, watch_newest |-> FALSE,
     no_analyzer |-> {}, split_connect |-> FALSE, watch_peer |-> FALSE]

NotObserved == [data |-> <<>>, ap_id |-> None]

NothingObserved == [p \in Peers |-> [t \in BondingTypes |-> NotObserved]]

NoCycle == [carried |-> 0, stale |-> {}, lost |-> FALSE]

NoWindow == [carried |-> 0, stale |-> {}]

\* No connect() call has stored an entry.
NoEntry == <<0, 0>>

NoDebounce == [mutations |-> 0, windows |-> 0, saves |-> 0, late |-> FALSE,
               marked |-> FALSE]

\* The state after NetworkCoordinator.__init__ and, when the run is booted,
\* after start(), for the given connectors, peers in range and thresholds;
\* scheduled: scan_scheduler has set _start_scan for the first time; file:
\* the bonding file found.
InitWith(connectors, peers, thresholds, run_limits, scheduled, file) ==
    /\ limits = run_limits
    /\ cycle = NoCycle
    /\ main = IF run_limits.booted THEN "run" ELSE "boot"
    /\ ready = [a \in APs |-> run_limits.booted /\ a \in connectors]
    /\ heard = [a \in APs |-> <<>>]
    /\ second_cycle = <<>>
    /\ window = NoWindow
    /\ newest = NoEntry
    /\ observed = NothingObserved
    /\ debounce = NoDebounce
    /\ last_report = NoReports
    /\ ap_dict = connectors
    /\ in_range = peers
    /\ rssi_threshold \in thresholds
    /\ connections = [a \in APs |-> EmptyMap]
    /\ link = [a \in APs |-> [h \in Handles |-> FreeLink]]
    /\ apq = [a \in APs |-> <<>>]
    /\ ap_alive = [a \in APs |-> a \in connectors]
    /\ scanning = [a \in APs |-> FALSE]
    /\ analyzer = [a \in APs |-> None]
    /\ an_session = [a \in APs |-> NoSession]
    /\ event_queue = <<>>
    /\ analyzer_queue = <<>>
    /\ ap_lock = "free"
    /\ start_scan = scheduled
    /\ scan_result = <<>>
    /\ analyzer_result = <<>>
    /\ scan = ScanIdle
    /\ an = AnIdle
    /\ bonding_db = load_bonding_db(file)
    /\ bonding_db_dirty = FALSE
    /\ flush = FlushIdle
    /\ bonding_file = file
    /\ cmds = <<>>

Radio(scan_values) ==
    \/ \E a \in ap_dict, h \in Handles : LinkOpened(a, h) \/ LinkLost(a, h)
    \/ \E a \in ap_dict, p \in Peers, r \in scan_values : AdvReport(a, p, r)

ScanTask ==
    \/ ScanStart \/ ScanStop \/ ScanLoop
    \/ ScanConnectOpened \/ ScanConnectTimeout \/ ScanClear

AnalyzerTask(conn_values, report_values) ==
    \/ AnalyzerGet \/ AnalyzerStart \/ AnalyzerDecide
    \/ AnalyzerConnectOpened \/ AnalyzerConnectTimeout
    \/ \E a \in ap_dict, h \in Handles, r \in conn_values : RssiTask(a, h, r)
    \/ \E a \in ap_dict, r \in report_values : AnalyzerReport(a, r)

\* Roaming of the peers 1..NumPeer-1 between the access points 1..NumAP-1.
Init ==
    InitWith(1..(NumAP - 1), 1..(NumPeer - 1), RssiThresholds,
             RunLimits(SL_BT_CONFIG_MAX_CONNECTIONS - 1,
                       SL_BT_CONFIG_MAX_CONNECTIONS, MaxApq - 1, MaxQueue - 1,
                       MaxSamples - 1, MaxMutations), FALSE, EmptyMap)

Next ==
    \/ ScanScheduler
    \/ ScanTask
    \/ AnalyzerTask(RssiValues, RssiValues)
    \/ EventHandler
    \/ \E a \in ap_dict : ApRun(a)
    \/ Radio(RssiValues)

Spec == Init /\ [][Next]_vars

\* Roaming of all peers between the access points 1..NumAP-1 in the first
\* scan period (scan_scheduler has set _start_scan and sleeps), where every
\* connection is weak (-60), every analyzer report is above the threshold
\* (-50 against -52), an access point takes SL_BT_CONFIG_MAX_CONNECTIONS
\* connections and no link breaks.
InitRoam ==
    InitWith(1..(NumAP - 1), Peers, {-52},
             RunLimits(SL_BT_CONFIG_MAX_CONNECTIONS,
                       SL_BT_CONFIG_MAX_CONNECTIONS, MaxApq - 1, MaxQueue - 1,
                       MaxSamples - 1, MaxMutations), TRUE, EmptyMap)

NextRoam ==
    \/ ScanTask
    \/ AnalyzerTask({-60}, {-50})
    \/ EventHandler
    \/ \E a \in ap_dict : ApRun(a)
    \/ \E a \in ap_dict, h \in Handles : LinkOpened(a, h)
    \/ \E a \in ap_dict, p \in Peers : AdvReport(a, p, -60)

SpecRoam == InitRoam /\ [][NextRoam]_vars

\* A handover decided on averaged analyzer values: one peer, connected at
\* -60 and sampled at -60 or at -52, which is the threshold, and sessions
\* that report up to MaxSamples values of -51 or -50, so that the best value
\* may be no whole number.
InitHandover ==
    InitWith(1..(NumAP - 1), 1..(NumPeer - 1), {-52},
             [RunLimits(SL_BT_CONFIG_MAX_CONNECTIONS,
                       SL_BT_CONFIG_MAX_CONNECTIONS, MaxApq - 1, MaxQueue,
                       MaxSamples, MaxMutations)
                 EXCEPT !.watch_window = TRUE], TRUE, EmptyMap)

NextHandover ==
    \/ ScanTask
    \/ AnalyzerTask({-60, -52}, {-51, -50})
    \/ EventHandler
    \/ \E a \in ap_dict : ApRun(a)
    \/ \E a \in ap_dict, h \in Handles : LinkOpened(a, h)
    \/ \E a \in ap_dict, p \in Peers : AdvReport(a, p, -60)

SpecHandover == InitHandover /\ [][NextHandover]_vars

\* Roaming between all NumAP access points, each with room for one
\* connection: peer p advertises next to access point p and is connected
\* at -60 under the threshold -52, and sessions report up to MaxSamples
\* values of -50.
InitCrowd ==
    InitWith(APs, Peers, {-52},
             [RunLimits(SL_BT_CONFIG_MAX_CONNECTIONS - 1,
                        SL_BT_CONFIG_MAX_CONNECTIONS - 1, MaxApq - 1, MaxQueue,
                        MaxSamples, MaxMutations)
                 EXCEPT !.watch_window = TRUE], TRUE, EmptyMap)

NextCrowd ==
    \/ ScanTask
    \/ AnalyzerTask({-60}, {-50})
    \/ EventHandler
    \/ \E a \in ap_dict : ApRun(a)
    \/ \E a \in ap_dict, h \in Handles : LinkOpened(a, h)
    \/ \E p \in Peers : AdvReport(p, p, -60)

SpecCrowd == InitCrowd /\ [][NextCrowd]_vars

\* Bonding while the peers are discovered and connected in the first scan
\* period: no threshold is given, the stacks deliver and request bonding
\* material, and a link breaks right after its stack has delivered material
\* that the access point's thread has not handled yet.
InitBonding ==
    InitWith(1..(NumAP - 1), Peers, {-127},
             RunLimits(SL_BT_CONFIG_MAX_CONNECTIONS,
                       SL_BT_CONFIG_MAX_CONNECTIONS, MaxApq, MaxQueue - 1,
                       MaxSamples - 1, MaxMutations - 1), TRUE, EmptyMap)

LinkLostAfterBonding(a, h) ==
    /\ apq[a] # <<>>
    /\ apq[a][Len(apq[a])].type = "bt_evt_external_bondingdb_data"
    /\ apq[a][Len(apq[a])].connection = h
    /\ LinkLost(a, h)

NextBonding ==
    \/ ScanTask
    \/ EventHandler
    \/ \E a \in ap_dict : ApRun(a)
    \/ \E a \in ap_dict, h \in Handles : LinkOpened(a, h)
    \/ \E a \in ap_dict, h \in Handles : LinkLostAfterBonding(a, h)
    \/ \E a \in ap_dict, p \in Peers : AdvReport(a, p, -60)
    \/ \E a \in ap_dict, h \in Handles : StackBondingData(a, h, 1, <<255>>)
    \/ \E a \in ap_dict, h \in Handles : StackBondingDataRequest(a, h, 1)

SpecBonding == InitBonding /\ [][NextBonding]_vars

\* Bonding requests on one access point while the peers are discovered and
\* connected in the first scan period: a link breaks right after its stack
\* has requested material that the access point's thread has not answered
\* yet.
InitRequest ==
    InitWith({1}, Peers, {-127},
             RunLimits(SL_BT_CONFIG_MAX_CONNECTIONS,
                       SL_BT_CONFIG_MAX_CONNECTIONS, MaxApq, MaxQueue - 1,
                       MaxSamples - 1, MaxMutations - 1), TRUE, EmptyMap)

LinkLostAfterRequest(a, h) ==
    /\ apq[a] # <<>>
    /\ apq[a][Len(apq[a])].type = "bt_evt_external_bondingdb_data_request"
    /\ apq[a][Len(apq[a])].connection = h
    /\ LinkLost(a, h)

NextRequest ==
    \/ ScanTask
    \/ EventHandler
    \/ ApRun(1)
    \/ \E h \in Handles : LinkOpened(1, h)
    \/ \E h \in Handles : LinkLostAfterRequest(1, h)
    \/ \E p \in Peers : AdvReport(1, p, -60)
    \/ \E h \in Handles : StackBondingData(1, h, 1, <<255>>)
    \/ \E h \in Handles : StackBondingDataRequest(1, h, 1)

SpecRequest == InitRequest /\ [][NextRequest]_vars

\* The bonding database alone: material of the types BondingTypes with the
\* blobs Blobs is merged for the peers, the database is saved, and the
\* program is started again with the file.
InitCodec ==
    InitWith(1..(NumAP - 1), Peers, {-127},
             RunLimits(SL_BT_CONFIG_MAX_CONNECTIONS,
                       SL_BT_CONFIG_MAX_CONNECTIONS, MaxApq, MaxQueue,
                       MaxSamples, MaxMutations), FALSE, EmptyMap)

NextCodec ==
    \/ \E address \in Peers, type \in BondingTypes, data \in Blobs :
          BondingDataMerged(address, type, data)
    \/ SaveBondingDb
    \/ Restart

SpecCodec == InitCodec /\ [][NextCodec]_vars

\* One access point and one peer in the first scan period: the stack
\* delivers bonding material of the connection while bonding_db_task runs.
InitFlush ==
    InitWith({1}, {1}, {-127},
             RunLimits(SL_BT_CONFIG_MAX_CONNECTIONS - 1,
                       SL_BT_CONFIG_MAX_CONNECTIONS - 1, MaxApq - 1,
                       MaxQueue - 1, MaxSamples - 1, MaxMutations),
             TRUE, EmptyMap)

NextFlush ==
    \/ ScanTask
    \/ EventHandler
    \/ ApRun(1)
    \/ BondingDbTask
    \/ \E h \in Handles : LinkOpened(1, h)
    \/ AdvReport(1, 1, -60)
    \/ \E h \in Handles, type \in BondingTypes :
          StackBondingData(1, h, type, <<255>>)

SpecFlush == InitFlush /\ [][NextFlush]_vars

\* Discovery cycles after cycles: the periodic trigger and the trigger of a
\* lost connection, with one RSSI value, no threshold, and cycle recorded.
InitCycle ==
    InitWith(1..(NumAP - 1), Peers, {-127},
             [RunLimits(SL_BT_CONFIG_MAX_CONNECTIONS - 1,
                        SL_BT_CONFIG_MAX_CONNECTIONS, MaxApq - 1, MaxQueue - 1,
                        MaxSamples - 1, MaxMutations)
                 EXCEPT !.watch_cycle = TRUE], FALSE, EmptyMap)

NextCycle ==
    \/ ScanScheduler
    \/ ScanTask
    \/ EventHandler
    \/ \E a \in ap_dict : ApRun(a)
    \/ Radio({-60})

SpecCycle == InitCycle /\ [][NextCycle]_vars

\* The bonding database and a file that is damaged from outside: material
\* is merged and saved while the program runs, and the program is started
\* again with the file it finds.
InitStore ==
    InitWith(1..(NumAP - 1), Peers, {-127},
             RunLimits(SL_BT_CONFIG_MAX_CONNECTIONS,
                       SL_BT_CONFIG_MAX_CONNECTIONS, MaxApq, MaxQueue,
                       MaxSamples, MaxMutations), FALSE, EmptyMap)

NextStore ==
    \/ /\ main = "run"
       /\ \E address \in Peers, type \in BondingTypes, data \in Blobs :
             BondingDataMerged(address, type, data)
    \/ main = "run" /\ SaveBondingDb
    \/ FileDamaged
    \/ Restart

SpecStore == InitStore /\ [][NextStore]_vars

\* update_analyzer_result alone: in one analysis, every access point reports
\* up to MaxHeard values of AnalyzerRssiValues, in any order.
InitSmooth ==
    InitWith(1..(NumAP - 1), Peers, {-52},
             RunLimits(SL_BT_CONFIG_MAX_CONNECTIONS,
                       SL_BT_CONFIG_MAX_CONNECTIONS, MaxApq, MaxQueue,
                       MaxSamples, MaxMutations), FALSE, EmptyMap)

NextSmooth ==
    \/ \E a \in ap_dict, r \in AnalyzerRssiValues : UpdateAnalyzerResult(a, r)
    \/ ResetAnalyzerResult

SpecSmooth == InitSmooth /\ [][NextSmooth]_vars

\* Two discovery cycles side by side: in each, the access points report
\* one peer with the values of ScanRssiValues, in any order.
InitTie ==
    InitWith(1..(NumAP - 1), 1..(NumPeer - 1), {-127},
             RunLimits(SL_BT_CONFIG_MAX_CONNECTIONS,
                       SL_BT_CONFIG_MAX_CONNECTIONS, MaxApq, MaxQueue,
                       MaxSamples, MaxMutations), FALSE, EmptyMap)

NextTie ==
    \/ \E a \in ap_dict, p \in in_range, r \in ScanRssiValues :
          UpdateScanResult(a, p, r)
    \/ \E a \in ap_dict, p \in in_range, r \in ScanRssiValues :
          UpdateSecondCycle(a, p, r)

SpecTie == InitTie /\ [][NextTie]_vars

\* The start of the program and the discovery cycles after it: the access
\* points boot in any order or not at all, and the worker threads run once
\* start has started them.
InitBoot ==
    InitWith(1..(NumAP - 1), Peers, {-127},
             [RunLimits(SL_BT_CONFIG_MAX_CONNECTIONS - 1,
                        SL_BT_CONFIG_MAX_CONNECTIONS, MaxApq - 1, MaxQueue - 1,
                        MaxSamples - 1, MaxMutations)
                 EXCEPT !.booted = FALSE], FALSE, EmptyMap)

NextBoot ==
    \/ \E a \in ap_dict : SystemBoot(a)
    \/ start
    \/ /\ main = "run"
       /\ \/ ScanScheduler
          \/ ScanTask
          \/ EventHandler
          \/ \E a \in ap_dict : ApRun(a)
          \/ Radio({-60})

SpecBoot == InitBoot /\ [][NextBoot]_vars

\* Discovery cycles after cycles of one peer between the access points
\* 1..NumAP-1 without roaming: no link breaks, the event queue holds
\* MaxQueue events, and the entry of the latest connect() call is recorded.
InitDuplicate ==
    InitWith(1..(NumAP - 1), 1..(NumPeer - 1), {-127},
             [RunLimits(SL_BT_CONFIG_MAX_CONNECTIONS - 1,
                        SL_BT_CONFIG_MAX_CONNECTIONS, MaxApq - 1, MaxQueue,
                        MaxSamples - 1, MaxMutations)
                 EXCEPT !.watch_newest = TRUE], FALSE, EmptyMap)

NextDuplicate ==
    \/ ScanScheduler
    \/ ScanTask
    \/ EventHandler
    \/ \E a \in ap_dict : ApRun(a)
    \/ \E a \in ap_dict, h \in Handles : LinkOpened(a, h)
    \/ \E a \in ap_dict, p \in Peers : AdvReport(a, p, -60)

SpecDuplicate == InitDuplicate /\ [][NextDuplicate]_vars

\* Roaming of one peer between all access points in the first scan period,
\* where the target of the last access point has no connection analyzer:
\* its start command fails.
InitRelease ==
    InitWith(APs, 1..(NumPeer - 1), {-52},
             [RunLimits(SL_BT_CONFIG_MAX_CONNECTIONS - 1,
                        SL_BT_CONFIG_MAX_CONNECTIONS, MaxApq - 1, MaxQueue - 1,
                        MaxSamples - 1, MaxMutations)
                 EXCEPT !.no_analyzer = {NumAP}], TRUE, EmptyMap)

NextRelease ==
    \/ ScanTask
    \/ AnalyzerTask({-60}, {-50})
    \/ EventHandler
    \/ \E a \in ap_dict : ApRun(a)
    \/ \E a \in ap_dict, h \in Handles : LinkOpened(a, h)
    \/ \E a \in ap_dict, p \in Peers : AdvReport(a, p, -60)

SpecRelease == InitRelease /\ [][NextRelease]_vars

\* GATT discovery on the links of one peer to one access point: the link
\* breaks and is made again by a discovery cycle, and the thread of the
\* access point may be MaxApq + 1 stack events behind.
InitGatt ==
    InitWith({1}, 1..(NumPeer - 1), {-127},
             RunLimits(SL_BT_CONFIG_MAX_CONNECTIONS,
                       SL_BT_CONFIG_MAX_CONNECTIONS, MaxApq + 1,
                       MaxQueue - 1, MaxSamples - 1, MaxMutations),
             TRUE, EmptyMap)

NextGatt ==
    \/ ScanScheduler
    \/ ScanTask
    \/ EventHandler
    \/ ApRun(1)
    \/ \E h \in Handles : LinkOpened(1, h) \/ LinkLost(1, h)
    \/ \E p \in Peers : AdvReport(1, p, -60)
    \/ \E h \in Handles, mode \in {0, 1} : StackConnectionParameters(1, h, mode)
    \/ \E h \in Handles : StackGattReport(1, h, 1)
    \/ \E h \in Handles, result \in {"OK", "failed"} :
          StackGattCompleted(1, h, result)

SpecGatt == InitGatt /\ [][NextGatt]_vars

\* Discovery cycles of one access point and one peer in which the thread
\* of the access point may run between the return of the open command and
\* the assignment to self.connections in connect().
InitRace ==
    InitWith({1}, 1..(NumPeer - 1), {-127},
             [RunLimits(SL_BT_CONFIG_MAX_CONNECTIONS,
                        SL_BT_CONFIG_MAX_CONNECTIONS, MaxApq - 1, MaxQueue - 1,
                        MaxSamples - 1, MaxMutations)
                 EXCEPT !.split_connect = TRUE], FALSE, EmptyMap)

NextRace ==
    \/ ScanScheduler
    \/ ScanTask
    \/ ScanInsert
    \/ EventHandler
    \/ ApRun(1)
    \/ \E h \in Handles : LinkOpened(1, h)
    \/ \E p \in Peers : AdvReport(1, p, -60)

SpecRace == InitRace /\ [][NextRace]_vars

\* One access point with one connection slot and two peers that come and
\* go while their measurements wait for the analyzer task.
InitTarget ==
    InitWith({1}, Peers, {-52},
             [RunLimits(SL_BT_CONFIG_MAX_CONNECTIONS - 1,
                        SL_BT_CONFIG_MAX_CONNECTIONS - 1, MaxApq - 1,
                        MaxQueue - 1, MaxSamples - 1, MaxMutations)
                 EXCEPT !.watch_peer = TRUE], TRUE, EmptyMap)

NextTarget ==
    \/ ScanTask
    \/ AnalyzerGet
    \/ AnalyzerStart
    \/ \E h \in Handles : RssiTask(1, h, -60)
    \/ EventHandler
    \/ ApRun(1)
    \/ \E h \in Handles : LinkOpened(1, h) \/ LinkLost(1, h)
    \/ \E p \in Peers : AdvReport(1, p, -60)

SpecTarget == InitTarget /\ [][NextTarget]_vars

\* Discovery only: all peers are in range, no threshold is given (-127, no
\* connection analysis is ever requested), and the advertisement reports
\* carry the RSSI values of ScanRssiValues.
InitScan ==
    InitWith(1..(NumAP - 1), Peers, {-127},
             RunLimits(SL_BT_CONFIG_MAX_CONNECTIONS - 1,
                       SL_BT_CONFIG_MAX_CONNECTIONS, MaxApq - 1, MaxQueue - 1,
                       MaxSamples - 1, MaxMutations), FALSE, EmptyMap)

NextScan ==
    \/ ScanScheduler
    \/ ScanTask
    \/ EventHandler
    \/ \E a \in ap_dict : ApRun(a)
    \/ Radio(ScanRssiValues)

SpecScan == InitScan /\ [][NextScan]_vars

(***************************************************************************)
(* Properties.                                                             *)
(***************************************************************************)
\* The Connection entries for a peer address, over all access points.
EntriesOf(p) ==
    {<<a, h>> \in APs \X Handles :
        h \in DOMAIN connections[a] /\ connections[a][h].address = p}

\* C1 as stated: for every peer address, the connections dictionaries of all
\* access points together hold at most one Connection with that address.
C1_Uniqueness == \A p \in Peers : Cardinality(EntriesOf(p)) <= 1

\* C2: every access point holds at most SL_BT_CONFIG_MAX_CONNECTIONS entries
\* in its connections dictionary, pending and opened ones counted alike.
C2_Capacity ==
    \A a \in APs : Cardinality(DOMAIN connections[a]) <= limits.max_connections

\* scan() is about to pick an access point for a device that a full access
\* point reported.
C2_FullCandidate ==
    /\ scan.pc = "loop"
    /\ scan.iter <= Len(scan_result)
    /\ \E a \in Keys(scan_result[scan.iter][2]) :
          Cardinality(DOMAIN connections[a]) = limits.max_connections

\* The scan task is inside scan(), the analyzer task inside analyze_connection.
InScan == scan.pc \in {"scanning", "loop", "connect"}

InAnalyzeConnection == an.pc \in {"analyzing", "connect"}

\* C3: the scan task is never inside NetworkCoordinator.scan while the
\* analyzer task is inside NetworkCoordinator.analyze_connection, and each of
\* the two bodies runs only while its task holds _ap_lock.
C3_MutualExclusion ==
    /\ ~(InScan /\ InAnalyzeConnection)
    /\ InScan => ap_lock = "scan"
    /\ InAnalyzeConnection => ap_lock = "analyzer"

\* One task is inside its body while the other one waits for the lock.
C3_Contended ==
    \/ InScan /\ an.pc = "lock"
    \/ InAnalyzeConnection /\ scan.pc = "wait" /\ start_scan

\* The access points that reported the device in this scan cycle and can
\* take a connection now.
Candidates(address) ==
    {a \in ap_dict : last_report[address][a] # None /\ connectable(a)}

\* C4: when scan() issues connect for a device, the access point it picks
\* reported the device, is connectable, and its latest report of the device
\* carries the largest RSSI among the latest reports of the connectable
\* access points that reported the device; the entry stores that RSSI.
C4_DiscoveryAggregation ==
    [][(scan.pc = "loop" /\ scan'.pc = "connect") =>
          LET address == scan_result[scan.iter][1]
              chosen == scan'.wait_ap
          IN /\ chosen \in Candidates(address)
             /\ \A b \in Candidates(address) :
                   last_report[address][b] <= last_report[address][chosen]
             /\ connections'[chosen][scan'.wait_h].address = address
             /\ connections'[chosen][scan'.wait_h].rssi =
                   last_report[address][chosen]]_vars

\* scan() has issued connect on the access point whose latest report, -50,
\* beats the latest report, -55, of the access point that reported first.
C4_Example ==
    /\ scan.pc = "connect"
    /\ \E p \in Peers, a \in ap_dict \ {scan.wait_ap} :
          /\ connections[scan.wait_ap][scan.wait_h].address = p
          /\ p \in Keys(scan_result)
          /\ Get(scan_result, p) = <<(<<a, -55>>), (<<scan.wait_ap, -50>>)>>
          /\ last_report[p][a] = -55
          /\ last_report[p][scan.wait_ap] = -50
          /\ connectable(a)

\* The step in which analyze_connection ends: its decision after the sleep,
\* or its return before any analyzer was started.
AnalyzeDecides == an.pc = "analyzing" /\ an'.pc # "analyzing"

AnalyzeReturnsEarly == an.pc = "lock" /\ an'.pc \in {"get", "dead"}

\* The smoothed values of the other access points that are strictly greater
\* than the threshold and the signal strength of the analyzed connection.
Qualifying ==
    {i \in 1..Len(analyzer_result) :
        /\ analyzer_result[i][1] # an.ap_id
        /\ analyzer_result[i][2] > rssi_threshold * Scale
        /\ analyzer_result[i][2] > an.rssi * Scale}

\* C5 as stated: when the analysis has a qualifying smoothed value, its
\* decision issues one disconnect of the analyzed connection followed by one
\* connect of the peer on the access point with the largest qualifying value.
C5_HandoverTrigger ==
    [][(AnalyzeDecides /\ Qualifying # {}) =>
          \E i \in Qualifying, h \in Handles :
             /\ \A j \in Qualifying : analyzer_result[j][2] <= analyzer_result[i][2]
             /\ cmds' = <<CmdClose(an.ap_id, an.connection),
                          CmdOpen(analyzer_result[i][1], an.address, h)>>]_vars

\* C6: when analyze_connection has no sample, or no smoothed value strictly
\* greater than both the signal strength of the connection and the threshold,
\* it issues no radio command and leaves every connections dictionary alone.
C6_HandoverNoOp ==
    [][((AnalyzeDecides /\ Qualifying = {}) \/ AnalyzeReturnsEarly) =>
          (cmds' = <<>> /\ connections' = connections)]_vars

\* analyze_connection is about to decide with a smoothed value that beats the
\* signal strength of the connection but not the threshold.
C6_BelowThreshold ==
    /\ an.pc = "analyzing"
    /\ Qualifying = {}
    /\ \E i \in 1..Len(analyzer_result) :
          /\ analyzer_result[i][1] # an.ap_id
          /\ analyzer_result[i][2] > an.rssi * Scale

\* The thread of access point a handles a request for bonding data that the
\* stack sent for the link the peer has now, after bonding data of that type
\* was delivered for the peer on another access point.
RequestAfterMove(a) ==
    LET evt == Head(apq[a])
    IN /\ ap_alive[a] /\ ap_alive'[a]
       /\ apq[a] # <<>>
       /\ apq'[a] = Tail(apq[a])
       /\ evt.type = "bt_evt_external_bondingdb_data_request"
       /\ link[a][evt.connection].state = "open"
       /\ link[a][evt.connection].peer = evt.peer
       /\ observed[evt.peer][evt.bonding_type].ap_id \notin {None, a}

\* C7 as stated: after bonding data of a type was delivered for a peer on one
\* access point and the peer is connected on another one, a request for that
\* type on the new connection is answered with the data delivered last for
\* the peer and the type, not with empty data.
C7_BondingSurvivesHandover ==
    [][\A a \in ap_dict :
          LET evt == Head(apq[a])
          IN RequestAfterMove(a)
             => cmds' = <<CmdSetData(a, evt.connection, evt.bonding_type,
                                     observed[evt.peer][evt.bonding_type].data)>>]_vars

\* C8 (bonding round-trip): for every bonding database D the program can
\* hold, load_bonding_db of the file save_bonding_db(D) writes is equal to D
\* (same peers, same integer type keys, same blobs), and get_bonding_data(P)
\* on the reloaded database returns what D holds for P.
C8_BondingRoundTrip ==
    LET reloaded == load_bonding_db(save_bonding_db(bonding_db))
    IN /\ reloaded = bonding_db
       /\ \A P \in DOMAIN bonding_db :
             get_bonding_data(reloaded, P)[P] = bonding_db[P]

\* A database saved and loaded again where a peer holds ff for type 1 and
\* 00ab for type 12, written as the keys "1" and "12" and the texts "ff" and
\* "00ab".
C8_Reloaded ==
    /\ bonding_file = save_bonding_db(bonding_db)
    /\ bonding_db = load_bonding_db(bonding_file)
    /\ \E P \in DOMAIN bonding_db :
          /\ bonding_db[P] = (1 :> <<255>> @@ 12 :> <<0, 171>>)
          /\ bonding_file[P] = (<<"1">> :> <<"f", "f">>
                                @@ <<"1", "2">> :> <<"0", "0", "a", "b">>)

\* C9 (debounce): when all bonding mutations so far belong to one debounce
\* window (the first makes the flag dirty, the others happen while
\* bonding_db_task sleeps), bonding_db_task has called save_bonding_db at
\* most once, however the event handler's _bonding_db_dirty.set() falls
\* between the flusher's steps.
C9_Debounce ==
    (debounce.mutations >= 1 /\ ~debounce.late) => debounce.saves <= 1

\* The material of the type is in the file as the database holds it.
Persisted(address, type) ==
    /\ address \in DOMAIN bonding_file
    /\ json_key(type) \in DOMAIN bonding_file[address]
    /\ bonding_file[address][json_key(type)] = hex(bonding_db[address][type])

\* C10 (eventual persistence), as a property of finite runs: bonding_db_task
\* does not end while a bonding mutation is missing from the file.  Nothing
\* else writes the file, so a mutation missing when the task has ended is
\* never persisted, however the threads are scheduled.
C10_EventualPersistence ==
    flush.pc = "dead" =>
        \A address \in DOMAIN bonding_db :
            \A type \in DOMAIN bonding_db[address] : Persisted(address, type)

\* C11 (idempotent re-discovery): the steps of a discovery cycle in which no
\* report was recorded (scan() starts, and after the sleep finds that nothing
\* was reported since it started) issue no connect and no disconnect, leave
\* the connections of every access point as they are, and end the cycle.
C11_IdempotentRediscovery ==
    [][/\ (scan.pc = "wait" /\ scan'.pc = "scanning")
            => cmds' = <<>> /\ connections' = connections
       /\ (scan.pc = "scanning" /\ scan'.pc # "scanning"
           /\ last_report = NoReports)
            => /\ scan'.pc = "clear"
               /\ cmds' = <<>>
               /\ connections' = connections
               /\ link' = link]_vars

\* A cycle without reports has ended while a peer is connected.
C11_QuietCycle ==
    /\ scan.pc = "clear"
    /\ last_report = NoReports
    /\ \E a \in ap_dict, h \in Handles :
          h \in DOMAIN connections[a] /\ link[a][h].state = "open"

\* C12 (sightings do not cross scan cycles): when scan() picks an access
\* point for a device and issues the connect, the entry of _scan_result it
\* picked does not come from a report that was produced before this cycle
\* reset _scan_result (one that waited in _event_queue at the reset).
C12_SightingsDoNotCross ==
    [][(scan.pc = "loop" /\ scan'.pc = "connect")
          => \A i \in 1..Len(cmds') :
                cmds'[i].cmd = "open"
                   => <<cmds'[i].address, cmds'[i].ap>> \notin cycle.stale]_vars

\* C13 (connect timeout): when the wait of connect() for the opened event
\* times out, connect sends the close command for the handle it opened and
\* returns: scan() goes on with the next device and still holds the lock,
\* analyzer_task releases the lock and waits for the next request.
C13_ConnectTimeout ==
    [][/\ (scan.pc = "connect" /\ ~scan.opened /\ scan'.pc # "connect")
            => /\ cmds' = <<[cmd |-> "close", ap |-> scan.wait_ap,
                             connection |-> scan.wait_h]>>
               /\ scan'.pc = "loop"
               /\ scan'.iter = scan.iter + 1
               /\ ap_lock' = "scan"
       /\ (an.pc = "connect" /\ ~an.opened /\ an'.pc # "connect")
            => /\ cmds' = <<[cmd |-> "close", ap |-> an.wait_ap,
                             connection |-> an.wait_h]>>
               /\ an'.pc = "get"
               /\ ap_lock' = "free"]_vars

\* connect() called by scan() has timed out: the close command was sent for
\* the entry that never opened, and scan() is back in its loop at the next
\* device, holding the lock.
C13_ConnectTimedOut ==
    /\ scan.pc = "loop"
    /\ scan.iter = 2
    /\ ap_lock = "scan"
    /\ Len(cmds) = 1
    /\ cmds[1].cmd = "close"
    /\ cmds[1].connection \in DOMAIN connections[cmds[1].ap]
    /\ ~connections[cmds[1].ap][cmds[1].connection].opened

\* C14 (loss re-triggers discovery), as a property of finite runs: when the
\* event handler has handled an ApEventConnectionLost and no discovery cycle
\* has begun since, a cycle is requested (_start_scan is set) whenever
\* scan_task waits; else only the periodic trigger can start the next cycle.
C14_LossRetriggersDiscovery ==
    (cycle.lost /\ scan.pc = "wait") => start_scan

\* C15 (store load is never fatal): whatever the bonding file holds, the
\* start of the program does not end with an exception of load_bonding_db:
\* the main thread runs.
C15_StoreLoadNeverFatal == main = "run"

C17_CommandFailureIsNoOp ==
    [][(/\ an.pc = "lock"
        /\ an.connection \in DOMAIN connections[an.ap_id]
        /\ link[an.ap_id][an.connection].state # "open")
          => an'.pc # "dead"]_vars

\* C18 (default threshold disables roaming): with rssi_threshold = -127 no
\* connection sample is on _analyzer_queue, analyzer_task is never past its
\* queue read (no analysis, no disconnect and no connect of a handover), no
\* analyzer runs and the lock is never held for an analysis.
C18_DefaultThresholdDisablesRoaming ==
    rssi_threshold = -127
        => /\ analyzer_queue = <<>>
           /\ an.pc = "get"
           /\ ap_lock # "analyzer"
           /\ \A a \in APs : analyzer[a] = None

\* With the default threshold, a connection made on sightings of -60 has
\* been sampled at -50 and event_handler has handled every event.
C18_SampleHandled ==
    /\ rssi_threshold = -127
    /\ event_queue = <<>>
    /\ \A p \in Peers, a \in APs : last_report[p][a] # -50
    /\ \E a \in ap_dict, h \in Handles :
          /\ h \in DOMAIN connections[a]
          /\ connections[a][h].opened
          /\ connections[a][h].rssi = -50

\* C19 (reports outside a window are ignored): an ApEventScanRssi that
\* event_handler handles while scan is not in its scan window leaves
\* _scan_result as it was.
C19_ReportsOutsideWindowIgnored ==
    [][(/\ event_queue # <<>>
        /\ IsScanRssi(Head(event_queue))
        /\ event_queue' = Tail(event_queue)
        /\ scan.pc # "scanning")
          => scan_result' = scan_result]_vars

\* C20 (no concurrent access to coordinator state): _scan_result is not
\* changed while scan() iterates it (the loop and the connect it waits
\* for), and the bonding database is not changed while save_bonding_db
\* iterates it.
C20_NoConcurrentAccess ==
    [][/\ scan_result' # scan_result => scan.pc \notin {"loop", "connect"}
       /\ bonding_db' # bonding_db => flush.pc \notin {"items", "data"}]_vars

\* C21 (handover ordering and carry-forward): when analyze_connection
\* switches, it sends close for the old access point and handle and then
\* open on another access point for the same peer; the new Connection has
\* the address of the old one, the dictionary that the bonding database
\* holds for the address, and the best averaged value cut to a whole number
\* towards zero.
C21_HandoverCarryForward ==
    [][(an.pc = "analyzing" /\ an'.pc = "connect")
         => LET best_ap == an'.wait_ap
                conn == connections'[best_ap][an'.wait_h]
                best_rssi == Get(analyzer_result, best_ap)
            IN /\ best_ap # an.ap_id
               /\ cmds' = <<CmdClose(an.ap_id, an.connection),
                            CmdOpen(best_ap, an.address, an'.wait_h)>>
               /\ an.connection \in DOMAIN connections[an.ap_id]
                     => connections[an.ap_id][an.connection].address = an.address
               /\ conn.address = an.address
               /\ conn.bonding_data = BondingRef(an.address)
               /\ an.address \in DOMAIN bonding_db'
               /\ IF best_rssi >= 0
                  THEN conn.rssi * Scale <= best_rssi
                       /\ best_rssi < (conn.rssi + 1) * Scale
                  ELSE conn.rssi * Scale >= best_rssi
                       /\ best_rssi > (conn.rssi - 1) * Scale]_vars

\* A handover to an access point whose averaged value is no whole number.
C21_HandoverOnAverage ==
    /\ an.pc = "connect"
    /\ Len(cmds) = 2
    /\ cmds[1].cmd = "close" /\ cmds[2].cmd = "open"
    /\ an.wait_ap \in Keys(analyzer_result)
    /\ Get(analyzer_result, an.wait_ap) % Scale # 0

\* C22 (sample enqueue rule): when event_handler handles an
\* ApEventConnectionRssi, the event is appended once to _analyzer_queue if
\* its rssi is below rssi_threshold, and _analyzer_queue stays as it is if
\* the rssi is at the threshold or above.
C22_SampleEnqueueRule ==
    [][(/\ event_queue # <<>>
        /\ Head(event_queue).type = "ApEventConnectionRssi"
        /\ event_queue' = Tail(event_queue))
          => analyzer_queue' =
                IF Head(event_queue).rssi < rssi_threshold
                THEN Append(analyzer_queue, Head(event_queue))
                ELSE analyzer_queue]_vars

\* event_handler has handled every event, a connection was sampled at the
\* threshold and nothing is queued for analysis, nor being analysed.
C22_SampleAtThreshold ==
    /\ event_queue = <<>>
    /\ analyzer_queue = <<>>
    /\ an.pc = "get"
    /\ \E a \in ap_dict, h \in Handles :
          /\ h \in DOMAIN connections[a]
          /\ connections[a][h].opened
          /\ connections[a][h].rssi = rssi_threshold

\* s1/2^(n-1) + sum over i >= 2 of s_i/2^(n-i+1) for the values s of one
\* access point, in units of 1/Scale dBm.
RECURSIVE WeightedSum(_, _)
WeightedSum(s, i) ==
    IF i > Len(s) THEN 0
    ELSE (s[i] * Scale) \div Pow2(IF i = 1 THEN Len(s) - 1 ELSE Len(s) - i + 1)
         + WeightedSum(s, i + 1)

RECURSIVE Total(_)
Total(s) == IF s = <<>> THEN 0 ELSE Head(s) + Total(Tail(s))

\* C23 (analysis smoothing): _analyzer_result holds a value for exactly the
\* access points that reported in this analysis, and the value of an access
\* point is s1/2^(n-1) + sum over i >= 2 of s_i/2^(n-i+1) of its own values
\* s1..sn, whatever the other access points reported.
C23_AnalysisSmoothing ==
    /\ Keys(analyzer_result) = {a \in APs : heard[a] # <<>>}
    /\ Len(analyzer_result) = Cardinality(Keys(analyzer_result))
    /\ \A a \in Keys(analyzer_result) :
          Get(analyzer_result, a) = WeightedSum(heard[a], 1)

\* Two access points have reported MaxHeard values each, and the value kept
\* for one of them is not the arithmetic mean of its values.
C23_NotTheMean ==
    \E a, b \in Keys(analyzer_result) :
        /\ a # b
        /\ Len(heard[a]) = MaxHeard /\ Len(heard[b]) = MaxHeard
        /\ Get(analyzer_result, a) * Len(heard[a]) # Total(heard[a]) * Scale

\* C24 (analysis participants): when analyze_connection starts an analysis,
\* the access points with a running analyzer are exactly those that do not
\* own the connection and hold fewer connections than the maximum; when it
\* returns to the queue read from its start, no analyzer runs that did not
\* run before, no command is sent and no connection is added or removed.
C24_AnalysisParticipants ==
    [][/\ (an.pc = "lock" /\ an'.pc = "analyzing")
            => /\ {a \in APs : analyzer'[a] # None}
                    = {a \in ap_dict :
                          /\ a # an.ap_id
                          /\ Cardinality(DOMAIN connections[a])
                                < limits.max_connections}
               /\ an'.ap_list = {a \in APs : analyzer'[a] # None}
               /\ an'.ap_list # {}
       /\ (/\ an.pc = "lock"
           /\ an'.pc # "lock"
           /\ \A a \in ap_dict \ {an.ap_id} :
                 Cardinality(DOMAIN connections[a]) >= limits.max_connections)
            => /\ an'.pc \in {"get", "dead"}
               /\ analyzer' = analyzer
               /\ cmds' = <<>>
               /\ connections' = connections]_vars

\* An analysis runs on another access point while the owner of the analysed
\* connection has room as well.
C24_OwnerLeftOut ==
    /\ an.pc = "analyzing"
    /\ an.ap_list # {}
    /\ an.ap_id \notin an.ap_list
    /\ Cardinality(DOMAIN connections[an.ap_id]) < limits.max_connections
    /\ \A a \in an.ap_list : analyzer[a] # None

\* C25 (the decision uses only this analysis's window): when
\* analyze_connection decides, no entry of _analyzer_result holds an
\* ApEventAnalyzerRssi that was on the event queue already when this
\* analysis reset _analyzer_result.
C25_DecisionUsesOwnWindow ==
    [][(an.pc = "analyzing" /\ an'.pc # "analyzing") => window.stale = {}]_vars

\* C26 (connect only where there is room): the access point on which scan()
\* or analyze_connection calls connect holds fewer connections than the
\* maximum at that moment, so connect never raises its RuntimeError.
C26_ConnectOnlyWhereRoom ==
    [][/\ (scan.pc = "loop" /\ scan'.pc = "connect")
            => Cardinality(DOMAIN connections[scan'.wait_ap])
                  < limits.max_connections
       /\ (/\ an.pc = "analyzing" /\ an'.pc # "analyzing"
           /\ analyzer_result # <<>>)
            => LET best_ap == BestAp(analyzer_result, an.ap_id,
                                     an.rssi * Scale, rssi_threshold)[1]
               IN best_ap # an.ap_id
                     => Cardinality(DOMAIN connections[best_ap])
                           < limits.max_connections]_vars

\* C27 (deterministic tie-break): two discovery cycles that end with the
\* same access points and the same values for a peer connect the peer on the
\* same access point.
C27_DeterministicTieBreak ==
    \A p \in Keys(scan_result) \cap Keys(second_cycle) :
        LET first == Get(scan_result, p)
            second == Get(second_cycle, p)
        IN (/\ Keys(first) = Keys(second)
            /\ \A a \in Keys(first) : Get(first, a) = Get(second, a))
              => ScanChoice(first) = ScanChoice(second)

\* C28 (the debounce delay restarts): bonding_db_task does not go from its
\* sleep to save_bonding_db when the database was marked dirty during this
\* sleep, that is later than the sleep began and so less than the delay ago.
C28_DebounceDelayRestarts ==
    [][(flush.pc = "sleep" /\ flush'.pc = "save") => ~debounce.marked]_vars

\* C29 (bonding lookup never fails): when the thread of an access point
\* takes a bonding data request from its stack, it answers with one set_data
\* for the connection and the type, carrying the blob the database holds for
\* the peer of the link and the type, or the empty blob when it holds none.
C29_BondingLookupNeverFails ==
    [][\A a \in ap_dict :
          LET evt == Head(apq[a])
              stored == IF /\ evt.peer \in DOMAIN bonding_db
                           /\ evt.bonding_type \in DOMAIN bonding_db[evt.peer]
                        THEN bonding_db[evt.peer][evt.bonding_type]
                        ELSE <<>>
          IN (/\ ap_alive[a]
              /\ apq[a] # <<>>
              /\ evt.type = "bt_evt_external_bondingdb_data_request"
              /\ \/ apq'[a] = Tail(apq[a])
                 \/ ~ap_alive'[a])
                => cmds' = <<CmdSetData(a, evt.connection, evt.bonding_type,
                                        stored)>>]_vars

\* C30 (startup gating): the worker threads run only when every access point
\* has signalled ready; while start waits, and for ever after a wait of start
\* timed out, no discovery cycle is requested or under way, no analysis is
\* under way, no command is sent and no connection exists.
C30_StartupGating ==
    /\ main = "run" => \A a \in ap_dict : ready[a]
    /\ main # "run"
          => /\ ~start_scan /\ scan = ScanIdle /\ an = AnIdle
             /\ cmds = <<>> /\ event_queue = <<>>
             /\ \A a \in APs : connections[a] = EmptyMap /\ ~scanning[a]

\* The worker threads were started and a discovery cycle has called connect.
C30_StartedAndConnecting ==
    /\ main = "run"
    /\ scan.pc = "connect"
    /\ \A a \in ap_dict : ready[a]

\* C31 (connection lifecycle): every entry of an access point's connections
\* dictionary belongs to a link whose Opened event the access point has
\* received: the entry's opened Event is set.
C31_ConnectionLifecycle ==
    \A a \in ap_dict : \A h \in DOMAIN connections[a] : connections[a][h].opened

\* The entries of the same peer as the entry <<a, h>> that were stored
\* before it and belong to a link that is up.
OlderEntries(a, h) ==
    {e \in EntriesOf(connections[a][h].address) :
        /\ e # <<a, h>>
        /\ connections[e[1]][e[2]].opened
        /\ link[e[1]][e[2]].state = "open"
        /\ link[e[1]][e[2]].peer = connections[a][h].address}

\* C32 (duplicate resolution): while the entry stored by the latest connect()
\* call and an older entry of the same peer, whose link is up, exist, no step
\* removes the newer entry and keeps the older one: the duplicate ends with
\* the newer entry as the only one of the peer.
C32_DuplicateResolution ==
    [][LET a == newest[1]
           h == newest[2]
       IN (newest # NoEntry /\ h \in DOMAIN connections[a])
             => \A e \in OlderEntries(a, h) :
                   ~(/\ h \notin DOMAIN connections'[a]
                     /\ e[2] \in DOMAIN connections'[e[1]])]_vars

\* C33 (no starvation): no worker task stops for good: neither scan_task nor
\* analyzer_task has ended with an exception, after which no discovery cycle
\* is served and no job of _analyzer_queue is dequeued any more.
C33_NoStarvation == scan.pc # "dead" /\ an.pc # "dead"

\* C34 (radios are released outside the gate): while nobody holds _ap_lock,
\* no access point is scanning and no access point has an analyzer session
\* that the coordinator started and did not stop.
C34_RadiosReleased ==
    ap_lock = "free"
       => \A a \in ap_dict : ~scanning[a] /\ analyzer[a] = None

C39_GattDiscoveryTerminates ==
    [][\A a \in ap_dict :
          LET evt == Head(apq[a])
              h == evt.connection
          IN (/\ ap_alive[a]
              /\ apq[a] # <<>>
              /\ evt.type = "bt_evt_gatt_procedure_completed"
              /\ evt.result = "OK"
              /\ evt.proc = "characteristics"
              /\ ~evt.reported
              /\ apq'[a] = Tail(apq[a]))
                => ~(/\ cmds' # <<>>
                     /\ cmds'[1].cmd = "discover_characteristics_by_uuid"
                     /\ connections'[a] = connections[a]
                     /\ link'[a][h].gatt.proc = "characteristics"
                     /\ ~link'[a][h].gatt.reported)]_vars

\* C36 (opened and closed callbacks find their entry): when the thread of an
\* access point handles bt_evt_connection_opened or bt_evt_connection_closed
\* for a handle, the connections dictionary of the access point holds an
\* entry for the handle.
C36_CallbacksFindEntry ==
    [][\A a \in ap_dict :
          LET evt == Head(apq[a])
          IN (/\ ap_alive[a]
              /\ apq[a] # <<>>
              /\ evt.type \in {"bt_evt_connection_opened",
                               "bt_evt_connection_closed"}
              /\ \/ apq'[a] = Tail(apq[a])
                 \/ ~ap_alive'[a])
                => evt.connection \in DOMAIN connections[a]]_vars
\* C37: whenever analyze_connection reads the parameters and the address of
\* the degraded connection, the entry is in the connections of that access
\* point and belongs to the peer whose measurement was queued.
C37_AnalysisTargetsExisting ==
    [][(an.pc = "lock" /\ an'.pc # "lock")
          => /\ an.connection \in DOMAIN connections[an.ap_id]
             /\ connections[an.ap_id][an.connection].address = an.peer]_vars

\* C38: the entry of a connection attempt that timed out (connect() has
\* returned and opened was never set) is removed again: it is never left in
\* the connections of an access point whose thread has ended, the only code
\* that deletes entries.
C38_AbandonedFreed ==
    \A a \in ap_dict : \A h \in DOMAIN connections[a] :
        (/\ ~connections[a][h].opened
         /\ ~(scan.pc = "connect" /\ scan.wait_ap = a /\ scan.wait_h = h)
         /\ ~(an.pc = "connect" /\ an.wait_ap = a /\ an.wait_h = h))
            => ap_alive[a]
====
